---------------------------- MODULE Spec2Model ----------------------------
(***************************************************************************)
(* A model of the digital-humanities skill scripts.  Each script is an     *)
(* independent class; each gets its own group of variables, its own        *)
(* actions (one per public method) and its own specification.  Strings     *)
(* whose characters matter to the code (file names, sentences, texts) are  *)
(* sequences of one-character strings.                                     *)
(***************************************************************************)
EXTENDS Integers, Sequences, FiniteSets, TLC

VARIABLES
    \* ---- scripts/batch_processor.py : BatchProcessor.process_folder
    bpPc,          \* "idle" | "walk" | "done"
    bpInput,       \* the input folder: [exists, tree, unreadable]
    bpIdx,         \* position of the os.walk loop in the walk order
    stats,         \* the stats dict of process_folder
    outFolder,     \* files of the output folder: set of [name, kind, file_name]
    bpRet,         \* what process_folder returned: "none" | "error" | "stats"
    \* ---- scripts/digital_humanities.py : DigitalHumanities.process_request
    dhRequest,     \* the last request handed to process_request
    dhResult,      \* what process_request returned for it
    \* ---- cultural_analyzer.py : CulturalAnalyzer
    caBuilt,       \* "no", or how the analyzer was constructed
    caData,        \* self.data, the DataFrame
    caCall,        \* the last analysis call and what it returned
    \* ---- image_analyzer.py : ImageAnalyzer
    imgPath,       \* "unset", or what kind of path the analyzer was built with
    image,         \* self.image: "None" or "array"
    gray_image,    \* self.gray_image: "None" or "array"
    imgCall,       \* the last call and what it returned
    \* ---- model_processor.py : ModelProcessor
    mpBuilt,       \* whether the processor has been constructed
    model_data,    \* self.model_data: "None" or the format loaded
    point_cloud,   \* self.point_cloud: [set, points]
    mesh,          \* self.mesh: [set, vertices, faces, method]
    mpCall,        \* the last call, the state it was made in, what it returned
    mpHist,        \* what has happened so far: a model was loaded, a point
                   \* cloud was stored, reconstruct_mesh succeeded
    \* ---- argument_analyzer.py : ArgumentAnalyzer.extract_arguments
    aaPc,          \* "idle", "loop" (inside the for loop), "done"
    sentences,     \* self.sentences
    aaI,           \* the loop index i
    current_argument,
    arguments,
    aaSummary,     \* what generate_argument_summary returned, if it was called
    \* ---- influence_network_analyzer.py : InfluenceNetworkAnalyzer
    inPc,          \* "fresh" or "built"
    network,       \* self.network
    inInput,       \* the arguments build_influence_network was given
    inQuery,       \* the last analyze_influence_paths call and its result
    \* ---- semantic_network_analyzer.py : SemanticNetworkAnalyzer
    snPc,          \* "fresh" or "built"
    snNetwork,     \* self.network
    snInput,       \* the arguments build_network_from_text was given
    \* ---- heritage_data_management.py : HeritageDataManager
    hdmPc,         \* "idle", "created", "validated"
    hdmInfo,       \* the artifact_info create_metadata was given
    hdmCreated,    \* the standard create_metadata was called with
    hdmMetadata,   \* the metadata created, or given to validate_metadata
    hdmStandard,   \* the standard validate_metadata was called with
    hdmResult,     \* (is_valid, errors) as returned
    \* ---- EducationalContentManager
    ecmOp,         \* the method being called, or "idle"
    ecmInput,      \* its argument
    ecmResult,     \* its return value
    \* ---- historical_linguistics_analysis.py : HistoricalLinguisticsAnalysis
    hlaPc,         \* "idle" or "built"
    hlaData,       \* self.data
    hlaTree,       \* the DiGraph build_language_tree returned
    \* ---- batch_processor.py : BatchProcessor.process_file
    pfPc,          \* "idle", "loop" (inside the for loop), "done"
    pfContent,     \* file_name and len(content)
    pfChunks,      \* chunks
    pfI,           \* the loop index i
    pfRequests,    \* the requests given to process_request, in order
    pfResult       \* the dict process_file returns

bpVars == <<bpPc, bpInput, bpIdx, stats, outFolder, bpRet>>
dhVars == <<dhRequest, dhResult>>
caVars == <<caBuilt, caData, caCall>>
iaVars == <<imgPath, image, gray_image, imgCall>>
mpVars == <<mpBuilt, model_data, point_cloud, mesh, mpCall, mpHist>>
aaVars == <<aaPc, sentences, aaI, current_argument, arguments, aaSummary>>
inVars == <<inPc, network, inInput, inQuery>>
snVars == <<snPc, snNetwork, snInput>>
hdmVars == <<hdmPc, hdmInfo, hdmCreated, hdmMetadata, hdmStandard, hdmResult>>
ecmVars == <<ecmOp, ecmInput, ecmResult>>
hlaVars == <<hlaPc, hlaData, hlaTree>>
pfVars == <<pfPc, pfContent, pfChunks, pfI, pfRequests, pfResult>>

(***************************************************************************)
(* String helpers: str.endswith, substring test (Python's `in`), concat.   *)
(***************************************************************************)
EndsWith(s, suf) ==
    /\ Len(s) >= Len(suf)
    /\ SubSeq(s, Len(s) - Len(suf) + 1, Len(s)) = suf

Contains(s, sub) ==
    \E i \in 1..(Len(s) - Len(sub) + 1) : SubSeq(s, i, i + Len(sub) - 1) = sub

SeqToSet(s) == { s[i] : i \in 1..Len(s) }

(***************************************************************************)
(*                    scripts/batch_processor.py                           *)
(***************************************************************************)

\* File names that can occur in the input folder.
A_TXT  == <<"a", ".", "t", "x", "t">>
A_MD   == <<"a", ".", "m", "d">>
B_CSV  == <<"b", ".", "c", "s", "v">>
C_JSON == <<"c", ".", "j", "s", "o", "n">>
DOT_TXT == <<".", "t", "x", "t">>

\* The default file_extensions of process_folder.
file_extensions == << <<".", "t", "x", "t">>, <<".", "m", "d">>, <<".", "c", "s", "v">> >>

RESULT_SUFFIX == <<"_", "r", "e", "s", "u", "l", "t", ".", "j", "s", "o", "n">>
STATS_FILE == <<"b", "a", "t", "c", "h", "_", "p", "r", "o", "c", "e", "s", "s", "i", "n", "g",
                "_", "s", "t", "a", "t", "s", ".", "j", "s", "o", "n">>

\* Every (directory, file) the walk can meet, in os.walk order: the files of
\* the top folder first, then those of its sub-folder.
WalkUniverse ==
    << [dir |-> "",    name |-> A_TXT],
       [dir |-> "",    name |-> A_MD],
       [dir |-> "",    name |-> B_CSV],
       [dir |-> "",    name |-> C_JSON],
       [dir |-> "sub", name |-> A_TXT],
       [dir |-> "",    name |-> DOT_TXT] >>

\* At most MaxTree files are present in one input folder.
MaxTree == 4

\* os.path.splitext(p)[0] for a file name without a directory separator:
\* cut at the last dot unless only dots precede it.
LastDot(p) ==
    IF \E i \in 1..Len(p) : p[i] = "."
    THEN CHOOSE i \in 1..Len(p) : p[i] = "." /\ \A j \in (i+1)..Len(p) : p[j] # "."
    ELSE 0

SplitExtRoot(p) ==
    LET d == LastDot(p) IN
    IF d > 0 /\ \E k \in 1..(d - 1) : p[k] # "."
    THEN SubSeq(p, 1, d - 1)
    ELSE p

\* A test that accepts the first listed extension only.
HasListedExtension_FirstOnly(file_name) ==
    EndsWith(file_name, file_extensions[1])

\* any(file_name.endswith(ext) for ext in file_extensions)
HasListedExtension(file_name) ==
    \E k \in 1..Len(file_extensions) : EndsWith(file_name, file_extensions[k])

\* f"{os.path.splitext(file_name)[0]}_result.json" inside output_folder
OutputFile(file_name) == SplitExtRoot(file_name) \o RESULT_SUFFIX

\* open(path, 'w') + json.dump: the file is created, or replaced if it exists.
WriteFile(folder, name, kind, file_name) ==
    { f \in folder : f.name # name }
        \cup { [name |-> name, kind |-> kind, file_name |-> file_name] }

\* The walk order of the files present in the input folder.
RECURSIVE WalkFrom(_, _)
WalkFrom(tree, i) ==
    IF i > Len(WalkUniverse) THEN <<>>
    ELSE (IF i \in tree THEN <<i>> ELSE <<>>) \o WalkFrom(tree, i + 1)

Walk(tree) == WalkFrom(tree, 1)

EmptyStats == [total_files |-> 0, processed_files |-> 0, failed_files |-> 0, files |-> <<>>]

BPInit ==
    /\ bpPc = "idle"
    /\ bpInput = [exists |-> FALSE, tree |-> {}, unreadable |-> {}]
    /\ bpIdx = 0
    /\ stats = EmptyStats
    /\ outFolder = {}
    /\ bpRet = "none"

\* process_folder, lines 39-59: the existence check, makedirs, the fresh stats.
\* The environment (which files exist, which cannot be read as UTF-8) is
\* fixed when the call starts.
BPStart ==
    /\ bpPc = "idle"
    /\ \E ex \in BOOLEAN, tree \in SUBSET (1..Len(WalkUniverse)) :
         \E unr \in SUBSET tree :
            /\ Cardinality(tree) <= MaxTree
            /\ (~ex => tree = {})
            /\ bpInput' = [exists |-> ex, tree |-> tree, unreadable |-> unr]
            /\ IF ex
               THEN /\ bpPc' = "walk"
                    /\ bpIdx' = 1
                    /\ bpRet' = "none"
               ELSE /\ bpPc' = "done"
                    /\ bpIdx' = 0
                    /\ bpRet' = "error"
    /\ stats' = EmptyStats
    /\ outFolder' = {}

\* An iteration without the try/except: the exception of a file that cannot
\* be processed leaves process_folder, and nothing is returned.
BPVisit_StopsAtFailure ==
    /\ bpPc = "walk"
    /\ bpIdx <= Len(Walk(bpInput.tree))
    /\ LET i == Walk(bpInput.tree)[bpIdx]
           file_name == WalkUniverse[i].name
           output_file == OutputFile(file_name)
       IN  IF ~HasListedExtension(file_name)
           THEN UNCHANGED <<stats, outFolder, bpPc>>
           ELSE IF i \in bpInput.unreadable
           THEN /\ stats' = [stats EXCEPT !.total_files = @ + 1]
                /\ bpPc' = "done"
                /\ UNCHANGED outFolder
           ELSE /\ outFolder' = WriteFile(outFolder, output_file, "result", file_name)
                /\ stats' = [stats EXCEPT
                        !.total_files = @ + 1,
                        !.processed_files = @ + 1,
                        !.files = Append(@, [file_name |-> file_name, status |-> "success",
                                             output_file |-> output_file,
                                             error |-> ""])]
                /\ UNCHANGED bpPc
    /\ bpIdx' = bpIdx + 1
    /\ UNCHANGED <<bpInput, bpRet>>

\* One iteration of the loop of lines 62-102 on the next file of the walk.
BPVisit ==
    /\ bpPc = "walk"
    /\ bpIdx <= Len(Walk(bpInput.tree))
    /\ LET i == Walk(bpInput.tree)[bpIdx]
           file_name == WalkUniverse[i].name
           output_file == OutputFile(file_name)
       IN  IF ~HasListedExtension(file_name)
           THEN UNCHANGED <<stats, outFolder>>
           ELSE IF i \in bpInput.unreadable
           THEN \* open/read raised: the except branch
                /\ stats' = [stats EXCEPT
                        !.total_files = @ + 1,
                        !.failed_files = @ + 1,
                        !.files = Append(@, [file_name |-> file_name, status |-> "failed",
                                             output_file |-> <<>>,
                                             error |-> "read failed"])]
                /\ UNCHANGED outFolder
           ELSE /\ outFolder' = WriteFile(outFolder, output_file, "result", file_name)
                /\ stats' = [stats EXCEPT
                        !.total_files = @ + 1,
                        !.processed_files = @ + 1,
                        !.files = Append(@, [file_name |-> file_name, status |-> "success",
                                             output_file |-> output_file,
                                             error |-> ""])]
    /\ bpIdx' = bpIdx + 1
    /\ UNCHANGED <<bpPc, bpInput, bpRet>>

\* Lines 104-121: after the walk, the stats file is written and stats returned.
BPFinish ==
    /\ bpPc = "walk"
    /\ bpIdx > Len(Walk(bpInput.tree))
    /\ outFolder' = WriteFile(outFolder, STATS_FILE, "stats", <<>>)
    /\ bpPc' = "done"
    /\ bpRet' = "stats"
    /\ UNCHANGED <<bpInput, bpIdx, stats>>

\* ------------------------------------------------------------------
\* The result files and the stats file found in the output folder.
ResultFiles == { f \in outFolder : f.kind = "result" }
StatsWritten == \E f \in outFolder : f.name = STATS_FILE /\ f.kind = "stats"

\* C1: when process_folder has returned its statistics, the output folder
\* holds one distinct result file per successfully processed input file (as
\* many result files as processed_files) and the stats file.
C1_OneResultFilePerProcessedFile ==
    (bpPc = "done" /\ bpRet = "stats") =>
        /\ Cardinality(ResultFiles) = stats.processed_files
        /\ StatsWritten

\* a.txt and a.md of the same folder were both processed successfully and
\* the output folder holds a single result file, a_result.json.
C1_SharedBaseName ==
    /\ bpPc = "done" /\ bpRet = "stats"
    /\ bpInput.tree = {1, 2} /\ bpInput.unreadable = {}
    /\ stats.processed_files = 2
    /\ { f.name : f \in ResultFiles } = { <<"a">> \o RESULT_SUFFIX }

\* ------------------------------------------------------------------
\* The walk positions whose file iteration is over: all before bpIdx while
\* the walk goes on, all of them once it has ended.
IterationsDone ==
    IF bpPc = "walk" THEN SubSeq(Walk(bpInput.tree), 1, bpIdx - 1)
    ELSE Walk(bpInput.tree)

\* A file whose name ends in .txt, .md or .csv.
MatchingName(name) ==
    \/ EndsWith(name, <<".", "t", "x", "t">>)
    \/ EndsWith(name, <<".", "m", "d">>)
    \/ EndsWith(name, <<".", "c", "s", "v">>)

\* The matching files among the iterations that are over, in walk order.
MatchingDone == SelectSeq(IterationsDone, LAMBDA i : MatchingName(WalkUniverse[i].name))

\* C21: after every file iteration and at return, total_files =
\* processed_files + failed_files = the number of entries of 'files', and
\* the entries are, in walk order, one per matching file met so far, each
\* with status 'success' or 'failed': no file is entered twice.
C21_OneEntryPerMatchingFile ==
    (bpPc = "walk" \/ (bpPc = "done" /\ bpRet = "stats")) =>
        /\ stats.total_files = stats.processed_files + stats.failed_files
        /\ stats.total_files = Len(stats.files)
        /\ Len(stats.files) = Len(MatchingDone)
        /\ \A j \in 1..Len(stats.files) :
              /\ stats.files[j].file_name = WalkUniverse[MatchingDone[j]].name
              /\ stats.files[j].status \in {"success", "failed"}
        /\ stats.processed_files
              = Cardinality({j \in 1..Len(stats.files) : stats.files[j].status = "success"})

\* C21: a walk over a.txt (read), a.md (unreadable) and c.json (not
\* matching) has returned with two entries, one success and one failed.
C21_Witness ==
    /\ bpPc = "done" /\ bpRet = "stats"
    /\ bpInput.tree = {1, 2, 4} /\ bpInput.unreadable = {2}
    /\ stats.total_files = 2
    /\ stats.processed_files = 1
    /\ stats.failed_files = 1
    /\ Len(stats.files) = 2
    /\ stats.files[1].status = "success"
    /\ stats.files[2].status = "failed"

\* The matching files of the whole walk, in walk order.
MatchingInWalk ==
    SelectSeq(Walk(bpInput.tree), LAMBDA i : MatchingName(WalkUniverse[i].name))

\* process_folder has returned the statistics and the stats file is there.
BatchCompleted == bpPc = "done" /\ bpRet = "stats" /\ StatsWritten

\* C22: a file that fails does not stop the batch.  A walk that has begun
\* always leads to the return of the statistics with
\* batch_processing_stats.json written; and then every matching file of the
\* walk has been attempted, those after a failed one included, each file
\* that could not be processed being recorded as 'failed' with its error
\* text and each other one as 'success'.
C22_FailureDoesNotStopBatch ==
    /\ (bpPc = "walk") ~> BatchCompleted
    /\ [](bpPc = "done" =>
            \/ ~bpInput.exists /\ bpRet = "error"
            \/ /\ BatchCompleted
               /\ Len(stats.files) = Len(MatchingInWalk)
               /\ \A j \in 1..Len(MatchingInWalk) :
                     IF MatchingInWalk[j] \in bpInput.unreadable
                     THEN /\ stats.files[j].status = "failed"
                          /\ stats.files[j].error # ""
                     ELSE stats.files[j].status = "success")

\* C22: a.txt could not be read, and a.md and b.csv, which come after it in
\* the walk, were processed; the stats file is written and holds the
\* failure with its error text.
C22_Witness ==
    /\ BatchCompleted
    /\ bpInput.tree = {1, 2, 3} /\ bpInput.unreadable = {1}
    /\ stats.failed_files = 1 /\ stats.processed_files = 2
    /\ stats.files[1].status = "failed" /\ stats.files[1].error # ""
    /\ stats.files[2].status = "success"
    /\ stats.files[3].status = "success"

(***************************************************************************)
(*                    scripts/digital_humanities.py                        *)
(***************************************************************************)

\* The data keys in the order identify_needs tests them (lines 608-655).
DataKeys == << "text", "historical_data", "heritage_data", "art_data",
               "language_data", "philosophy_data", "social_data", "education_data" >>

DataKeySet == SeqToSet(DataKeys)
AllKeys == DataKeySet \cup {"description"}

\* The keys of DigitalHumanities.skills (lines 21-30).
SkillNames == { "text_analysis", "historical_research", "art_cultural_research",
                "language_research", "philosophy_research",
                "social_cultural_analysis", "cultural_heritage", "public_education" }

\* request_type and intent set by each branch of identify_needs.
RequestTypeOf(key) ==
    CASE key = "text"            -> "text_analysis"
      [] key = "historical_data" -> "historical_research"
      [] key = "heritage_data"   -> "cultural_heritage"
      [] key = "art_data"        -> "art_cultural_research"
      [] key = "language_data"   -> "language_research"
      [] key = "philosophy_data" -> "philosophy_research"
      [] key = "social_data"     -> "social_cultural_analysis"
      [] key = "education_data"  -> "public_education"

IntentOf(key) ==
    CASE key = "text"            -> <<"analyze_text">>
      [] key = "historical_data" -> <<"research_history">>
      [] key = "heritage_data"   -> <<"preserve_heritage">>
      [] key = "art_data"        -> <<"analyze_art">>
      [] key = "language_data"   -> <<"research_language">>
      [] key = "philosophy_data" -> <<"research_philosophy">>
      [] key = "social_data"     -> <<"analyze_social">>
      [] key = "education_data"  -> <<"educate_public">>

\* The data key each skill class reads in process(), and the operation it
\* appends when the value is truthy (lines 152-543).
SkillDataKey(skill) ==
    CASE skill = "text_analysis"            -> "text"
      [] skill = "historical_research"      -> "historical_data"
      [] skill = "art_cultural_research"    -> "art_data"
      [] skill = "language_research"        -> "language_data"
      [] skill = "philosophy_research"      -> "philosophy_data"
      [] skill = "social_cultural_analysis" -> "social_data"
      [] skill = "cultural_heritage"        -> "heritage_data"
      [] skill = "public_education"         -> "education_data"

SkillOperation(skill) ==
    CASE skill = "text_analysis"            -> "text_processing"
      [] skill = "historical_research"      -> "historical_data_processing"
      [] skill = "art_cultural_research"    -> "art_data_processing"
      [] skill = "language_research"        -> "language_data_processing"
      [] skill = "philosophy_research"      -> "philosophy_data_processing"
      [] skill = "social_cultural_analysis" -> "social_data_processing"
      [] skill = "cultural_heritage"        -> "heritage_data_processing"
      [] skill = "public_education"         -> "education_data_processing"

\* IntelligentAssistant.knowledge_base["keywords"] (lines 570-581), in dict
\* order.  One token stands for one Chinese character; two characters that
\* are different get different tokens.
KnowledgeBase ==
    << [skill |-> "text_analysis",
        keywords |-> << <<"wen","ben">>, <<"fen","xi">>, <<"qing","gan">>,
                        <<"fen","lei">>, <<"guan","jian1","ci">> >>],
       [skill |-> "historical_research",
        keywords |-> << <<"li1","shi1">>, <<"shi1","liao">>, <<"kao","zheng">>,
                        <<"bian","nian">>, <<"di","li2">> >>],
       [skill |-> "art_cultural_research",
        keywords |-> << <<"yi1","shu">>, <<"wen","hua">>, <<"feng","ge">>,
                        <<"yi2","chan">>, <<"bi","jiao1">> >>],
       [skill |-> "language_research",
        keywords |-> << <<"yu1","yan1">>, <<"yu1","yan1","xue">>, <<"yu1","liao","ku">>,
                        <<"fang","yan1">>, <<"yan2","bian2">> >>],
       [skill |-> "philosophy_research",
        keywords |-> << <<"zhe","xue">>, <<"si","xiang">>, <<"gai","nian2">>,
                        <<"lun","zheng">>, <<"yu1","yi3">> >>],
       [skill |-> "social_cultural_analysis",
        keywords |-> << <<"she","hui">>, <<"wen","hua">>, <<"wang","luo">>,
                        <<"qu1","shi2">>, <<"mei","ti">> >>],
       [skill |-> "cultural_heritage",
        keywords |-> << <<"yi2","chan">>, <<"bao","hu">>, <<"chuan","cheng">>,
                        <<"jian2","dang">>, <<"chong","jian2">> >>],
       [skill |-> "public_education",
        keywords |-> << <<"jiao2","yu2">>, <<"gong","zhong">>, <<"gu","shi3">>,
                        <<"she","qu2">>, <<"zi","yuan">> >> ] >>

\* ------------------------------------------------------------------
\* Values.  A value is [type, chars, len]: a str carries its characters,
\* a list or dict its length; a value is truthy iff its length is not 0.
StrValue(chars) == [type |-> "str", chars |-> chars, len |-> Len(chars)]
ListValue(n)    == [type |-> "list", chars |-> <<>>, len |-> n]
DictValue(n)    == [type |-> "dict", chars |-> <<>>, len |-> n]
Absent          == [type |-> "absent", chars |-> <<>>, len |-> 0]

Truthy(v) == v.len > 0

\* Values a request can carry under "text" (a str, as TextAnalysis declares),
\* under the other data keys, and under "description".
TextValues == << StrValue(<<>>),
                 StrValue(<<"a", "b", "a", "b">>),
                 StrValue(<<"a", ",", " ", "b", "c">>) >>

DataValues == << ListValue(0), ListValue(2), DictValue(1) >>

Descriptions == << StrValue(<<>>),
                   StrValue(<<"fen","xi","wen","ben">>),
                   StrValue(<<"wen","hua">>),
                   StrValue(<<"bao","hu","yi2","chan">>),
                   StrValue(<<"she","qu2","jiao2","yu2">>),
                   StrValue(<<"ni","hao">>) >>

ValuesFor(key) ==
    IF key = "text" THEN TextValues
    ELSE IF key = "description" THEN Descriptions
    ELSE DataValues

\* A request is [kind, keys, vals].  For a dict, keys are its keys and vals
\* its values; for a str or a list, keys are the key names k for which the
\* Python test `k in request` is true; None and int support no `in` at all.
\* At most MaxDataKeys data keys are present in one request.
MaxDataKeys == 2

NoVals == [k \in AllKeys |-> Absent]

DictRequest(K, idx) ==
    [kind |-> "dict", keys |-> K,
     vals |-> [k \in AllKeys |-> IF k \in K THEN ValuesFor(k)[idx[k]] ELSE Absent]]

NonDictRequests ==
    { [kind |-> kd, keys |-> {}, vals |-> NoVals] : kd \in {"none", "int"} }
    \cup
    { [kind |-> kd, keys |-> K, vals |-> NoVals] :
        kd \in {"str", "list"}, K \in {{}, {"text"}, {"description"}, {"social_data"}} }

NoRequest == [kind |-> "unset", keys |-> {}, vals |-> NoVals]

\* ------------------------------------------------------------------
\* IntelligentAssistant.identify_needs (lines 595-672)

\* `key in request`: raises TypeError for None and int.
InRaises(request) == request.kind \in {"none", "int"}
In(key, request) == key \in request.keys
\* request[key]: a str or list cannot be indexed by a str (TypeError).
GetRaises(request) == request.kind # "dict"

\* The first data key, in the order of the if/elif chain, that the request has.
FirstDataKeyFrom(request, i) ==
    LET hits == { j \in i..Len(DataKeys) : In(DataKeys[j], request) } IN
    IF hits = {} THEN 0 ELSE CHOOSE j \in hits : \A h \in hits : j <= h

FirstDataKey(request) == FirstDataKeyFrom(request, 1)

\* A keyword loop that goes on after a hit, so that the last matching skill
\* in knowledge-base order is the one kept.
KeywordSkill_LastMatch(description) ==
    LET hits == { s \in 1..Len(KnowledgeBase) :
                    \E k \in 1..Len(KnowledgeBase[s].keywords) :
                        Contains(description, KnowledgeBase[s].keywords[k]) } IN
    IF hits = {} THEN 0 ELSE CHOOSE s \in hits : \A h \in hits : s >= h

\* The loop of lines 660-670: the first skill, in knowledge-base order, one
\* of whose keywords occurs in the description; 0 when there is none.
KeywordSkill(description) ==
    LET hits == { s \in 1..Len(KnowledgeBase) :
                    \E k \in 1..Len(KnowledgeBase[s].keywords) :
                        Contains(description, KnowledgeBase[s].keywords[k]) } IN
    IF hits = {} THEN 0 ELSE CHOOSE s \in hits : \A h \in hits : s <= h

EmptyDict == [keys |-> {}, vals |-> NoVals]

UnknownNeeds ==
    [request_type |-> "unknown", data_types |-> <<>>, intent |-> <<>>,
     confidence |-> 0, data |-> EmptyDict]

\* Whether identify_needs raises on this request.
IdentifyRaises(request) ==
    \/ InRaises(request)
    \/ /\ GetRaises(request)
       /\ \/ FirstDataKey(request) # 0
          \/ In("description", request)

\* The needs dict identify_needs returns (confidence in tenths).
identify_needs(request) ==
    LET i == FirstDataKey(request) IN
    IF i # 0
    THEN [request_type |-> RequestTypeOf(DataKeys[i]),
          data_types |-> <<DataKeys[i]>>,
          intent |-> IntentOf(DataKeys[i]),
          confidence |-> 9,
          data |-> [keys |-> {DataKeys[i]},
                    vals |-> [k \in AllKeys |->
                                IF k = DataKeys[i] THEN request.vals[k] ELSE Absent]]]
    ELSE IF In("description", request)
              /\ KeywordSkill(request.vals["description"].chars) # 0
    THEN LET skill == KnowledgeBase[KeywordSkill(request.vals["description"].chars)].skill IN
         [request_type |-> skill,
          data_types |-> <<>>,
          intent |-> <<"process_", skill>>,
          confidence |-> 7,
          data |-> [keys |-> request.keys, vals |-> request.vals]]
    ELSE UnknownNeeds

\* IntelligentAssistant.match_skills (lines 674-684): the keys of
\* matched_skills; each maps to the needs dict itself.
match_skills(identified_needs) ==
    IF identified_needs.request_type # ""
    THEN {identified_needs.request_type}
    ELSE {}

\* ------------------------------------------------------------------
\* TextAnalysis._extract_keywords (lines 204-241)
num_keywords == 10

Punctuation == { ",", ".", " ", "!", "?", ";", ":", "(", ")", "[", "]" }

NotPunctuation(c) == c \notin Punctuation

cleaned_text(text) == SelectSeq(text, NotPunctuation)

\* The two-character words of the cleaned text, in order.
BigramWords(ct) ==
    IF Len(ct) < 2 THEN <<>>
    ELSE [i \in 1..(Len(ct) - 1) |-> <<ct[i], ct[i + 1]>>]

\* sorted(word_counts.items(), key=count, reverse=True)[:num_keywords]:
\* by count, descending; equal counts keep first-occurrence order.
extract_keywords(text) ==
    LET words == BigramWords(cleaned_text(text))
        D == SeqToSet(words)
        count(w) == Cardinality({ i \in 1..Len(words) : words[i] = w })
        first(w) == CHOOSE i \in 1..Len(words) :
                        words[i] = w /\ \A j \in 1..(i - 1) : words[j] # w
        before(u, w) == \/ count(u) > count(w)
                        \/ count(u) = count(w) /\ first(u) < first(w)
        pos(w) == 1 + Cardinality({ u \in D : before(u, w) })
        sorted_words == [k \in 1..Cardinality(D) |-> CHOOSE w \in D : pos(w) = k]
    IN  SubSeq(sorted_words, 1,
               IF Cardinality(D) < num_keywords THEN Cardinality(D) ELSE num_keywords)

\* ------------------------------------------------------------------
\* SkillBase.process of the eight skill classes (lines 152-543).  `data` is
\* the needs dict, whose own keys are those of NeedsKeys.
NeedsKeys == {"request_type", "data_types", "intent", "confidence", "data"}

\* A process() that forgets the nested lookup data["data"][key].
SkillInputTopLevelOnly(skill, data) ==
    LET key == SkillDataKey(skill) IN
    IF key \in NeedsKeys THEN data.data.vals[key] ELSE Absent

\* The value the skill finds: data[key] if key in data, else
\* data["data"][key] if that exists, else None (Absent).
SkillInput(skill, data) ==
    LET key == SkillDataKey(skill) IN
    IF key \in NeedsKeys THEN Absent
    ELSE IF "data" \in NeedsKeys /\ key \in data.data.keys THEN data.data.vals[key]
    ELSE Absent

SkillProcess(skill, data) ==
    LET v == SkillInput(skill, data) IN
    [skill |-> skill,
     processed |-> TRUE,
     operations |-> IF Truthy(v) THEN <<SkillOperation(skill)>> ELSE <<>>,
     results |->
        IF ~Truthy(v) THEN [none |-> TRUE]
        ELSE CASE skill = "text_analysis" ->
                    [text_length |-> v.len, character_count |-> v.len,
                     keywords |-> extract_keywords(v.chars)]
               [] skill = "historical_research" ->
                    IF v.type = "list" THEN [data_count |-> v.len]
                    ELSE [data_processed |-> TRUE]
               [] skill = "art_cultural_research" -> [data_type |-> v.type]
               [] skill \in {"philosophy_research", "social_cultural_analysis"} ->
                    [data_analyzed |-> TRUE]
               [] OTHER -> [data_processed |-> TRUE]]

\* IntelligentAssistant.validate_results (lines 686-703); confidence in tenths.
validate_results(resultKeys) ==
    IF resultKeys = {}
    THEN [valid |-> FALSE, issues |-> <<"no results">>, confidence |-> 0]
    ELSE [valid |-> TRUE, issues |-> <<>>, confidence |-> 8]

FullKeys == {"request", "identified_needs", "matched_skills", "results",
             "validation", "timestamp", "version"}
ErrorKeys == {"error", "timestamp"}

NoResult ==
    [keys |-> {}, identified_needs |-> UnknownNeeds, matched_skills |-> {},
     results |-> <<>>, validation |-> validate_results({}), raised |-> FALSE]

\* The skills whose process() is run: matched skills found in self.skills.
RunSkills(matched) == matched \cap SkillNames

\* The exception the try body of process_request raises, "" when none:
\* identify_needs is the only call of the body that can raise.
BodyException(request) ==
    IF IdentifyRaises(request) THEN "TypeError" ELSE ""

\* An except clause that names KeyError only.
CaughtKeyErrorOnly(exc) == exc = "KeyError"

\* `except Exception as e` (line 82) catches every exception of the body.
Caught(exc) == exc \in {"TypeError", "KeyError", "AttributeError", "ValueError"}

\* DigitalHumanities.process_request (lines 39-86).  `raised` is TRUE when
\* an exception leaves the method.
process_request(request) ==
    IF BodyException(request) # ""
    THEN IF Caught(BodyException(request))
         THEN [NoResult EXCEPT !.keys = ErrorKeys]
         ELSE [NoResult EXCEPT !.raised = TRUE]
    ELSE LET needs == identify_needs(request)
             matched == match_skills(needs)
             results == [s \in RunSkills(matched) |-> SkillProcess(s, needs)]
         IN  [keys |-> FullKeys,
              identified_needs |-> needs,
              matched_skills |-> matched,
              results |-> results,
              validation |-> validate_results(DOMAIN results),
              raised |-> FALSE]

DHInit ==
    /\ dhRequest = NoRequest
    /\ dhResult = NoResult

\* A call of process_request with a dict.
DHProcessDict ==
    /\ dhRequest = NoRequest
    /\ \E K \in SUBSET AllKeys :
        /\ Cardinality(K \cap DataKeySet) <= MaxDataKeys
        /\ \E idx \in [K -> 1..Len(Descriptions)] :
            /\ \A k \in K : idx[k] <= Len(ValuesFor(k))
            /\ dhRequest' = DictRequest(K, idx)
            /\ dhResult' = process_request(DictRequest(K, idx))

\* A call of process_request with None, an int, a str or a list.
DHProcessOther ==
    /\ dhRequest = NoRequest
    /\ \E r \in NonDictRequests :
        /\ dhRequest' = r
        /\ dhResult' = process_request(r)

\* The caller takes the result; the dispatcher keeps no state between calls.
DHReturn ==
    /\ dhRequest # NoRequest
    /\ dhRequest' = NoRequest
    /\ dhResult' = NoResult

\* ------------------------------------------------------------------
\* The data keys of the last request that are present.
PresentDataKeys == dhRequest.keys \cap DataKeySet

\* The last request is a dict with exactly one data key, whose value is
\* non-empty.
OneDataKeyRequest ==
    /\ dhRequest.kind = "dict"
    /\ Cardinality(PresentDataKeys) = 1
    /\ \A k \in PresentDataKeys : Truthy(dhRequest.vals[k])

\* C2: a request with exactly one data key and a non-empty value gets a
\* full result whose 'results' map has exactly one entry, keyed by the skill
\* of the skills table that handles that data key, with a non-empty
\* 'operations' list.
C2_OneKeyOneSkill ==
    OneDataKeyRequest =>
        /\ dhResult.keys = FullKeys
        /\ Cardinality(DOMAIN dhResult.results) = 1
        /\ \A s \in DOMAIN dhResult.results :
              /\ s \in SkillNames
              /\ SkillDataKey(s) \in PresentDataKeys
              /\ dhResult.results[s].skill = s
              /\ Len(dhResult.results[s].operations) > 0

\* A heritage_data request (with a description naming another skill) was
\* dispatched to cultural_heritage and processed.
C2_Witness ==
    /\ OneDataKeyRequest
    /\ PresentDataKeys = {"heritage_data"}
    /\ "description" \in dhRequest.keys
    /\ DOMAIN dhResult.results = {"cultural_heritage"}
    /\ dhResult.results["cultural_heritage"].operations = <<"heritage_data_processing">>

\* C3: process_request never lets an exception out: whatever the request,
\* it returns the full result dict or a dict with 'error' and a timestamp.
C3_NeverRaises ==
    (dhRequest # NoRequest) =>
        /\ ~dhResult.raised
        /\ \/ dhResult.keys = FullKeys
           \/ {"error", "timestamp"} \subseteq dhResult.keys

\* process_request(None) came back as an error dict.
C3_Witness ==
    /\ dhRequest.kind = "none"
    /\ dhResult.keys = ErrorKeys
    /\ ~dhResult.raised

\* The skills, by their place in the knowledge base, that have a keyword
\* occurring in the description of the last request.
SkillsNamedInDescription ==
    IF "description" \in dhRequest.keys
    THEN { s \in 1..Len(KnowledgeBase) :
             \E k \in 1..Len(KnowledgeBase[s].keywords) :
                Contains(dhRequest.vals["description"].chars,
                         KnowledgeBase[s].keywords[k]) }
    ELSE {}

\* C20: a dict request gets exactly one request_type.  With data keys
\* present it is the type of the first of them in the order text,
\* historical_data, heritage_data, art_data, language_data, philosophy_data,
\* social_data, education_data, whatever the description; without data keys
\* it is the first skill in knowledge-base order that has a keyword in the
\* description ("unknown" if there is none); and match_skills yields exactly
\* that one candidate.
C20_OneRequestType ==
    (dhRequest.kind = "dict" /\ dhResult.keys = FullKeys) =>
        LET order == << "text", "historical_data", "heritage_data", "art_data",
                        "language_data", "philosophy_data", "social_data",
                        "education_data" >>
            present == { j \in 1..Len(order) : order[j] \in dhRequest.keys }
            request_type == dhResult.identified_needs.request_type
        IN /\ present # {} =>
                \E j \in present :
                    /\ \A h \in present : j <= h
                    /\ request_type = RequestTypeOf(order[j])
                    /\ dhResult.identified_needs.data_types = << order[j] >>
           /\ (present = {} /\ SkillsNamedInDescription # {}) =>
                \E s \in SkillsNamedInDescription :
                    /\ \A h \in SkillsNamedInDescription : s <= h
                    /\ request_type = KnowledgeBase[s].skill
           /\ (present = {} /\ SkillsNamedInDescription = {}) =>
                request_type = "unknown"
           /\ dhResult.matched_skills = {request_type}

\* C20: a request without data keys whose description names a keyword of
\* art_cultural_research and of cultural_heritage is given to the first.
C20_Witness ==
    /\ dhRequest.kind = "dict"
    /\ dhResult.keys = FullKeys
    /\ dhRequest.keys = {"description"}
    /\ SkillsNamedInDescription = {3, 7}
    /\ dhResult.identified_needs.request_type = "art_cultural_research"
    /\ dhResult.matched_skills = {"art_cultural_research"}

\* C20: of two data keys the first in the order wins over the second and
\* over a description that names another skill.
C20_WitnessTwoKeys ==
    /\ dhRequest.kind = "dict"
    /\ dhResult.keys = FullKeys
    /\ dhRequest.keys = {"heritage_data", "art_data", "description"}
    /\ SkillsNamedInDescription = {8}
    /\ dhResult.identified_needs.request_type = "cultural_heritage"
    /\ dhResult.matched_skills = {"cultural_heritage"}

(***************************************************************************)
(*   digital-humanities-art-culture/scripts/cultural_data_analysis/        *)
(*   cultural_analyzer.py                                                  *)
(***************************************************************************)

\* Column names a DataFrame can have; a column is "absent" or holds numbers
\* ("num"), parseable date strings ("date"), other strings ("text") or, after
\* time_series_analysis converted it, datetimes ("time").
ColNames == {"c1", "c2", "c3"}
ColTypes == {"absent", "num", "date", "text"}

\* A DataFrame has at most MaxRows rows.
MaxRows == 2
\* cluster_analysis is called with n_clusters up to MaxClusters.
MaxClusters == 3

\* pd.DataFrame(): no rows, no columns.
EmptyFrame == [rows |-> 0, nan |-> 0, cols |-> [c \in ColNames |-> "absent"]]

Columns(df) == { c \in ColNames : df.cols[c] # "absent" }
\* DataFrame.empty: some axis has length 0.
IsEmpty(df) == df.rows = 0 \/ Columns(df) = {}
\* select_dtypes(include=[np.number]).columns
NumericCols(df) == { c \in ColNames : df.cols[c] = "num" }

\* CulturalAnalyzer._load_data (lines 41-62): a readable .csv/.json/.xlsx
\* gives its frame; a missing file or another extension ends in the except
\* clause and gives pd.DataFrame().
load_data(fileKind, frame) ==
    IF fileKind = "readable" THEN frame ELSE EmptyFrame

NoCall == [method |-> "none", required |-> {}, optional |-> {}, kind |-> "none"]

\* What a call returned: "error" is a dict with an 'error' key, "None" is
\* None, "result" the analysis dict, "graph" an nx.Graph, "raise" an
\* exception leaving the method.
Outcome(method, required, optional, kind) ==
    [method |-> method, required |-> required, optional |-> optional, kind |-> kind]

\* descriptive_statistics (lines 64-100)
descriptive_statistics(df) ==
    IF IsEmpty(df) THEN "error" ELSE "result"

\* correlation_analysis (lines 102-126)
correlation_analysis(df) ==
    IF IsEmpty(df) THEN "error"
    ELSE IF Cardinality(NumericCols(df)) < 2 THEN "error"
    ELSE "result"

\* network_analysis (lines 128-165)
network_analysis(df, node_col, edge_col) ==
    IF IsEmpty(df) THEN "None"
    ELSE IF node_col \notin Columns(df) \/ edge_col \notin Columns(df) THEN "None"
    ELSE "graph"

\* cluster_analysis (lines 167-208): KMeans raises when n_clusters is not
\* in 1..n_samples.
cluster_analysis(df, n_clusters) ==
    IF IsEmpty(df) THEN "error"
    ELSE IF Cardinality(NumericCols(df)) < 2 THEN "error"
    ELSE IF df.rows - df.nan = 0 THEN "error"
    ELSE IF n_clusters < 1 \/ n_clusters > df.rows - df.nan THEN "raise"
    ELSE "result"

\* time_series_analysis (lines 210-247): pd.to_datetime fails on strings
\* that are no dates; the statistics need a numeric value column.
time_series_analysis(df, time_col, value_col) ==
    IF IsEmpty(df) THEN "error"
    ELSE IF time_col \notin Columns(df) \/ value_col \notin Columns(df) THEN "error"
    ELSE IF df.cols[time_col] = "text" THEN "error"
    ELSE IF time_col # value_col /\ df.cols[value_col] = "num" THEN "result"
    ELSE "raise"

\* The frame after time_series_analysis: line 229 stores the converted column.
TimeConverted(df, time_col, value_col) ==
    IF /\ ~IsEmpty(df)
       /\ time_col \in Columns(df) /\ value_col \in Columns(df)
       /\ df.cols[time_col] # "text"
    THEN [df EXCEPT !.cols[time_col] = "time"]
    ELSE df

\* A column whose mean/std/min/max pandas can compute.
HasStats(df, c) == df.cols[c] = "num"

\* geographic_analysis (lines 263-314); value_col is {} (None) or {name}.
geographic_analysis(df, lat_col, lon_col, value_col) ==
    IF IsEmpty(df) THEN "error"
    ELSE IF lat_col \notin Columns(df) \/ lon_col \notin Columns(df) THEN "error"
    ELSE IF ~HasStats(df, lat_col) \/ ~HasStats(df, lon_col) THEN "raise"
    ELSE IF \E v \in value_col : v \in Columns(df) /\ ~HasStats(df, v) THEN "raise"
    ELSE "result"

\* A sentiment_analysis that does not look for the column first: the
\* lookup self.data[text_col] raises KeyError.
sentiment_analysis_NoColumnCheck(df, text_col) ==
    IF IsEmpty(df) THEN "error"
    ELSE IF text_col \notin Columns(df) THEN "raise"
    ELSE "result"

\* sentiment_analysis (lines 316-367)
sentiment_analysis(df, text_col) ==
    IF IsEmpty(df) THEN "error"
    ELSE IF text_col \notin Columns(df) THEN "error"
    ELSE "result"

CAInit ==
    /\ caBuilt = "no"
    /\ caData = EmptyFrame
    /\ caCall = NoCall

\* CulturalAnalyzer(data) with a DataFrame or with a file path (lines 26-39).
CACreate ==
    /\ caBuilt = "no"
    /\ \E how \in {"frame", "readable", "missing_file", "bad_format"},
          rows \in 0..MaxRows, cols \in [ColNames -> ColTypes] :
        \E nan \in 0..rows :
            /\ caBuilt' = how
            /\ caData' = IF how = "frame"
                         THEN [rows |-> rows, nan |-> nan, cols |-> cols]
                         ELSE load_data(how, [rows |-> rows, nan |-> nan, cols |-> cols])
    /\ caCall' = NoCall

CADescriptive ==
    /\ caBuilt # "no" /\ caCall = NoCall
    /\ caCall' = Outcome("descriptive_statistics", {}, {}, descriptive_statistics(caData))
    /\ UNCHANGED <<caBuilt, caData>>

CACorrelation ==
    /\ caBuilt # "no" /\ caCall = NoCall
    /\ caCall' = Outcome("correlation_analysis", {}, {}, correlation_analysis(caData))
    /\ UNCHANGED <<caBuilt, caData>>

CANetwork ==
    /\ caBuilt # "no" /\ caCall = NoCall
    /\ \E node_col, edge_col \in ColNames :
        caCall' = Outcome("network_analysis", {node_col, edge_col}, {},
                          network_analysis(caData, node_col, edge_col))
    /\ UNCHANGED <<caBuilt, caData>>

CACluster ==
    /\ caBuilt # "no" /\ caCall = NoCall
    /\ \E n_clusters \in 0..MaxClusters :
        caCall' = Outcome("cluster_analysis", {}, {}, cluster_analysis(caData, n_clusters))
    /\ UNCHANGED <<caBuilt, caData>>

CATimeSeries ==
    /\ caBuilt # "no" /\ caCall = NoCall
    /\ \E time_col, value_col \in ColNames :
        /\ caCall' = Outcome("time_series_analysis", {time_col, value_col}, {},
                             time_series_analysis(caData, time_col, value_col))
        /\ caData' = TimeConverted(caData, time_col, value_col)
    /\ UNCHANGED caBuilt

CAGeographic ==
    /\ caBuilt # "no" /\ caCall = NoCall
    /\ \E lat_col, lon_col \in ColNames, value_col \in {{}} \cup {{c} : c \in ColNames} :
        caCall' = Outcome("geographic_analysis", {lat_col, lon_col}, value_col,
                          geographic_analysis(caData, lat_col, lon_col, value_col))
    /\ UNCHANGED <<caBuilt, caData>>

CASentiment ==
    /\ caBuilt # "no" /\ caCall = NoCall
    /\ \E text_col \in ColNames :
        caCall' = Outcome("sentiment_analysis", {text_col}, {},
                          sentiment_analysis(caData, text_col))
    /\ UNCHANGED <<caBuilt, caData>>

\* The caller takes what the method returned.
CAReturn ==
    /\ caCall # NoCall
    /\ caCall' = NoCall
    /\ UNCHANGED <<caBuilt, caData>>

\* ------------------------------------------------------------------
\* The frame the last call saw (time_series_analysis may have converted a
\* column since, which leaves the set of columns and the rows as they were).
\* The input of the last call was invalid: an empty frame (as a missing
\* file gives), or a named column that does not exist.
CAInvalidRequired == IsEmpty(caData) \/ ~(caCall.required \subseteq Columns(caData))
CAInvalidNamed ==
    CAInvalidRequired \/ ~(caCall.optional \subseteq Columns(caData))

\* C4 as stated: on invalid input every analysis method returns a dict with
\* an 'error' key.
C4_ErrorDictOnInvalidInput ==
    (caCall # NoCall /\ CAInvalidNamed) => caCall.kind = "error"

\* C4 amended: on an empty frame or a missing required column no method
\* raises; network_analysis returns None and the six others a dict with an
\* 'error' key.  (A missing optional value_col is not an error.)
C4_NoRaiseOnInvalidInput ==
    (caCall # NoCall /\ CAInvalidRequired) =>
        IF caCall.method = "network_analysis"
        THEN caCall.kind = "None"
        ELSE caCall.kind = "error"

\* An analyzer built from a missing file was asked for a time series and
\* answered with an error dict.
C4_Witness ==
    /\ caBuilt = "missing_file"
    /\ caCall.method = "time_series_analysis"
    /\ caCall.kind = "error"

(***************************************************************************)
(*   digital-humanities-art-culture/scripts/digital_image_processing/      *)
(*   image_analyzer.py                                                     *)
(***************************************************************************)

\* What image_path can be: a readable image file, a path with no file, a
\* file that is no image (cv2.imread returns None for both), or a value
\* that is no str (cv2.imread raises).
PathKinds == {"image_file", "missing", "not_an_image", "not_a_str"}

\* enhance() factors, in halves: 0, 0.5, ... MaxFactor / 2.
MaxFactor == 2

Styles == {"impressionist", "sketch", "oil_painting", "watercolor", "other"}

\* A load_image without its try/except: the failure leaves the method.
load_image_NoTry(pathKind, img, gray) ==
    IF pathKind = "image_file" THEN <<"array", "array", "returned">>
    ELSE <<img, gray, "raise">>

\* ImageAnalyzer.load_image (lines 31-44): <<image, gray_image, outcome>>
\* after the call.  imread raising, or returning None (line 38 raises
\* then), ends in the except clause, which prints and returns, with both
\* attributes as they were.
load_image(pathKind, img, gray) ==
    IF pathKind = "image_file" THEN <<"array", "array", "returned">>
    ELSE <<img, gray, "returned">>

\* analyze (lines 46-66)
analyze(img) == IF img = "None" THEN "error" ELSE "result"

\* enhance (lines 226-253), style_transfer (255-301): a PIL image or None
enhance(img) == IF img = "None" THEN "None" ELSE "image"
style_transfer(img) == IF img = "None" THEN "None" ELSE "image"

\* detect_faces (lines 303-331): a list, empty when no image is loaded
detect_faces(img) == IF img = "None" THEN "empty_list" ELSE "list"

\* segment_image (lines 333-345), extract_features (347-371)
segment_image(img) == IF img = "None" THEN "None" ELSE "array"
extract_features(img) == IF img = "None" THEN "None" ELSE "array"

NoImgCall == [method |-> "none", args |-> <<>>, kind |-> "none"]

IAInit ==
    /\ imgPath = "unset"
    /\ image = "None"
    /\ gray_image = "None"
    /\ imgCall = NoImgCall

\* ImageAnalyzer(image_path) (lines 19-29)
IACreate ==
    /\ imgPath = "unset"
    /\ \E pk \in PathKinds :
        /\ imgPath' = pk
        /\ image' = load_image(pk, "None", "None")[1]
        /\ gray_image' = load_image(pk, "None", "None")[2]
        /\ imgCall' = [method |-> "__init__", args |-> <<>>,
                       kind |-> load_image(pk, "None", "None")[3]]

\* load_image() called again on the same path.
IALoadImage ==
    /\ imgPath # "unset" /\ imgCall = NoImgCall
    /\ image' = load_image(imgPath, image, gray_image)[1]
    /\ gray_image' = load_image(imgPath, image, gray_image)[2]
    /\ imgCall' = [method |-> "load_image", args |-> <<>>,
                   kind |-> load_image(imgPath, image, gray_image)[3]]
    /\ UNCHANGED imgPath

IAAnalyze ==
    /\ imgPath # "unset" /\ imgCall = NoImgCall
    /\ imgCall' = [method |-> "analyze", args |-> <<>>, kind |-> analyze(image)]
    /\ UNCHANGED <<imgPath, image, gray_image>>

IAEnhance ==
    /\ imgPath # "unset" /\ imgCall = NoImgCall
    /\ \E brightness, contrast, saturation \in 0..MaxFactor :
        imgCall' = [method |-> "enhance", args |-> <<brightness, contrast, saturation>>,
                    kind |-> enhance(image)]
    /\ UNCHANGED <<imgPath, image, gray_image>>

IAStyleTransfer ==
    /\ imgPath # "unset" /\ imgCall = NoImgCall
    /\ \E style \in Styles :
        imgCall' = [method |-> "style_transfer", args |-> <<style>>,
                    kind |-> style_transfer(image)]
    /\ UNCHANGED <<imgPath, image, gray_image>>

IADetectFaces ==
    /\ imgPath # "unset" /\ imgCall = NoImgCall
    /\ imgCall' = [method |-> "detect_faces", args |-> <<>>, kind |-> detect_faces(image)]
    /\ UNCHANGED <<imgPath, image, gray_image>>

IASegment ==
    /\ imgPath # "unset" /\ imgCall = NoImgCall
    /\ imgCall' = [method |-> "segment_image", args |-> <<>>, kind |-> segment_image(image)]
    /\ UNCHANGED <<imgPath, image, gray_image>>

IAExtractFeatures ==
    /\ imgPath # "unset" /\ imgCall = NoImgCall
    /\ imgCall' = [method |-> "extract_features", args |-> <<>>,
                   kind |-> extract_features(image)]
    /\ UNCHANGED <<imgPath, image, gray_image>>

IAReturn ==
    /\ imgCall # NoImgCall
    /\ imgCall' = NoImgCall
    /\ UNCHANGED <<imgPath, image, gray_image>>

\* ------------------------------------------------------------------
\* What each method must answer when no image could be loaded.
UnloadedAnswer(method) ==
    CASE method = "analyze" -> "error"
      [] method = "detect_faces" -> "empty_list"
      [] method \in {"enhance", "style_transfer", "segment_image", "extract_features"}
            -> "None"
      [] OTHER -> "returned"

\* C5: built with a path that cannot be loaded, the analyzer has
\* image = gray_image = None, and every later call answers without raising:
\* analyze an error dict, detect_faces [], the four others None.
C5_UnloadedNeverRaises ==
    (imgPath \in PathKinds \ {"image_file"}) =>
        /\ image = "None"
        /\ gray_image = "None"
        /\ imgCall # NoImgCall => imgCall.kind = UnloadedAnswer(imgCall.method)

\* Built on a path with no file, the analyzer answered detect_faces with [].
C5_Witness ==
    /\ imgPath = "missing"
    /\ imgCall.method = "detect_faces"
    /\ imgCall.kind = "empty_list"

(***************************************************************************)
(*   digital-humanities-art-culture/scripts/3d_modeling_scanning/          *)
(*   model_processor.py                                                    *)
(***************************************************************************)

\* File extensions load_model accepts (line 47), after lower().
ModelFormats == {".obj", ".stl", ".ply", ".glb", ".gltf"}
\* Extensions of the paths handed to load_model: an accepted one, an
\* accepted one in upper case, and one that is not accepted.
PathExtensions == {".obj", ".STL", ".txt"}
LowerExt(ext) == IF ext = ".STL" THEN ".stl" ELSE ext

\* np.random.rand(1000, 3) and np.random.randint(..., (2000, 3))
NumPoints == 1000
NumFaces == 2000

\* Point clouds by number of points and by dtype: an ndarray with no point,
\* ndarrays with points, of numbers or of strings.  MaxCloud bounds the size
\* of a supplied cloud.
MaxCloud == 2

\* target_faces values tried by simplify_mesh: around 0 and around NumFaces.
TargetFaces == {-1, 0, 1, NumFaces - 1, NumFaces, NumFaces + 1}

NoMesh == [set |-> FALSE, vertices |-> 0, faces |-> 0, method |-> ""]
NoCloud == [set |-> FALSE, points |-> 0, numeric |-> TRUE]
Cloud(n, numeric) == [set |-> TRUE, points |-> n, numeric |-> numeric]
SuppliedClouds == { Cloud(n, b) : n \in 0..MaxCloud, b \in BOOLEAN }

\* Lines 84-89 on a stored cloud: np.mean raises on strings, min() raises on
\* a cloud without points.
StatisticsRaise(pc) == ~pc.numeric \/ pc.points = 0

MPState == [model_data |-> model_data, point_cloud |-> point_cloud, mesh |-> mesh]

\* ModelProcessor.load_model (lines 32-62): the new model_data and the
\* bool returned.
load_model(ext, md) ==
    IF LowerExt(ext) \in ModelFormats
    THEN [model_data |-> LowerExt(ext), ok |-> TRUE]
    ELSE [model_data |-> md, ok |-> FALSE]

\* A process_point_cloud that extracts a cloud whether or not a model is
\* loaded.
process_point_cloud_NoModelCheck(data, md, pc) ==
    LET cloud == IF data.set THEN data ELSE Cloud(NumPoints, TRUE) IN
    [point_cloud |-> cloud,
     kind |-> IF StatisticsRaise(cloud) THEN "error" ELSE "success"]

\* ModelProcessor.process_point_cloud (lines 64-98): the new point_cloud
\* and the kind of dict returned.  A supplied cloud is stored before its
\* statistics are computed; an exception there is turned into an error
\* dict by the except clause.
process_point_cloud(data, md, pc) ==
    IF data.set
    THEN [point_cloud |-> data,
          kind |-> IF StatisticsRaise(data) THEN "error" ELSE "success"]
    ELSE IF md # "None"
    THEN [point_cloud |-> Cloud(NumPoints, TRUE), kind |-> "success"]
    ELSE [point_cloud |-> pc, kind |-> "error"]

\* ModelProcessor.reconstruct_mesh (lines 100-129): the new mesh and the
\* kind of dict returned.  randint(0, 0, ...) raises for a cloud without
\* points, before self.mesh is assigned.
reconstruct_mesh(method, pc, m) ==
    IF ~pc.set THEN [mesh |-> m, kind |-> "error"]
    ELSE IF pc.points = 0 THEN [mesh |-> m, kind |-> "error"]
    ELSE [mesh |-> [set |-> TRUE, vertices |-> pc.points, faces |-> NumFaces,
                    method |-> method],
          kind |-> "success"]

\* len(faces[:target_faces]) for a list of n faces.
SliceLen(n, t) ==
    IF t >= 0 THEN (IF t < n THEN t ELSE n)
    ELSE (IF n + t > 0 THEN n + t ELSE 0)

\* ModelProcessor.simplify_mesh (lines 131-160): the dict returned.  The
\* reduction_rate 1 - simplified_faces / original_faces is kept as its
\* numerator over original_faces: removed_faces / original_faces.
simplify_mesh(target_faces, m) ==
    IF ~m.set
    THEN [kind |-> "error", original_faces |-> 0, simplified_faces |-> 0,
          removed_faces |-> 0]
    ELSE IF target_faces >= m.faces
    THEN [kind |-> "error", original_faces |-> 0, simplified_faces |-> 0,
          removed_faces |-> 0]
    ELSE [kind |-> "success", original_faces |-> m.faces,
          simplified_faces |-> SliceLen(m.faces, target_faces),
          removed_faces |-> m.faces - SliceLen(m.faces, target_faces)]

\* ModelProcessor.texture_mapping (lines 162-186)
texture_mapping(textureExists, m) ==
    IF ~textureExists THEN "error"
    ELSE IF ~m.set THEN "error"
    ELSE "success"

\* ModelProcessor.measure_dimensions (lines 188-215)
measure_dimensions(pc) ==
    IF ~pc.set THEN "error"
    ELSE IF StatisticsRaise(pc) THEN "error"
    ELSE "result"

NoMPCall ==
    [method |-> "none", arg |-> 0, kind |-> "none", pre |-> <<>>,
     original_faces |-> 0, simplified_faces |-> 0, removed_faces |-> 0]

MPCall(method, arg, kind) ==
    [method |-> method, arg |-> arg, kind |-> kind, pre |-> MPState,
     original_faces |-> 0, simplified_faces |-> 0, removed_faces |-> 0]

MPInit ==
    /\ mpBuilt = FALSE
    /\ model_data = "None"
    /\ point_cloud = NoCloud
    /\ mesh = NoMesh
    /\ mpCall = NoMPCall
    /\ mpHist = [loaded |-> FALSE, cloud |-> FALSE, meshed |-> FALSE]

\* ModelProcessor(model_path) (lines 17-30): without a path, or with one,
\* which is then loaded.
MPCreate ==
    /\ ~mpBuilt
    /\ mpBuilt' = TRUE
    /\ \E ext \in PathExtensions \cup {"None"} :
        LET r == IF ext = "None" THEN [model_data |-> "None", ok |-> FALSE]
                 ELSE load_model(ext, "None") IN
        /\ model_data' = r.model_data
        /\ mpHist' = [mpHist EXCEPT !.loaded = r.ok]
    /\ mpCall' = NoMPCall
    /\ UNCHANGED <<point_cloud, mesh>>

MPLoadModel ==
    /\ mpBuilt /\ mpCall = NoMPCall
    /\ \E ext \in PathExtensions :
        LET r == load_model(ext, model_data) IN
        /\ model_data' = r.model_data
        /\ mpHist' = [mpHist EXCEPT !.loaded = @ \/ r.ok]
        /\ mpCall' = MPCall("load_model", 0, IF r.ok THEN "True" ELSE "False")
    /\ UNCHANGED <<mpBuilt, point_cloud, mesh>>

\* process_point_cloud(), and process_point_cloud(data) with a cloud of n
\* points; arg is -1 for no data, else n.
MPProcessPointCloud ==
    /\ mpBuilt /\ mpCall = NoMPCall
    /\ \E data \in {NoCloud} \cup SuppliedClouds :
        LET r == process_point_cloud(data, model_data, point_cloud) IN
        /\ point_cloud' = r.point_cloud
        /\ mpHist' = [mpHist EXCEPT !.cloud = @ \/ r.point_cloud.set]
        /\ mpCall' = MPCall("process_point_cloud",
                            IF data.set THEN data.points ELSE -1, r.kind)
    /\ UNCHANGED <<mpBuilt, model_data, mesh>>

MPReconstructMesh ==
    /\ mpBuilt /\ mpCall = NoMPCall
    /\ \E method \in {"poisson", "ball_pivoting"} :
        LET r == reconstruct_mesh(method, point_cloud, mesh) IN
        /\ mesh' = r.mesh
        /\ mpHist' = [mpHist EXCEPT !.meshed = @ \/ r.kind = "success"]
        /\ mpCall' = MPCall("reconstruct_mesh", 0, r.kind)
    /\ UNCHANGED <<mpBuilt, model_data, point_cloud>>

MPSimplifyMesh ==
    /\ mpBuilt /\ mpCall = NoMPCall
    /\ \E target_faces \in TargetFaces :
        LET r == simplify_mesh(target_faces, mesh) IN
        mpCall' = [MPCall("simplify_mesh", target_faces, r.kind) EXCEPT
                        !.original_faces = r.original_faces,
                        !.simplified_faces = r.simplified_faces,
                        !.removed_faces = r.removed_faces]
    /\ UNCHANGED <<mpBuilt, model_data, point_cloud, mesh, mpHist>>

\* texture_mapping(path); arg is 1 when the texture file exists, else 0.
MPTextureMapping ==
    /\ mpBuilt /\ mpCall = NoMPCall
    /\ \E textureExists \in BOOLEAN :
        mpCall' = MPCall("texture_mapping", IF textureExists THEN 1 ELSE 0,
                         texture_mapping(textureExists, mesh))
    /\ UNCHANGED <<mpBuilt, model_data, point_cloud, mesh, mpHist>>

MPMeasureDimensions ==
    /\ mpBuilt /\ mpCall = NoMPCall
    /\ mpCall' = MPCall("measure_dimensions", 0, measure_dimensions(point_cloud))
    /\ UNCHANGED <<mpBuilt, model_data, point_cloud, mesh, mpHist>>

\* generate_report (lines 252-285): with a point cloud it calls
\* process_point_cloud() without data, which draws a new cloud when a model
\* is loaded, and measure_dimensions(); then it writes the report.
MPGenerateReport ==
    /\ mpBuilt /\ mpCall = NoMPCall
    /\ LET r == IF point_cloud.set
                THEN process_point_cloud(NoCloud, model_data, point_cloud)
                ELSE [point_cloud |-> point_cloud, kind |-> "skipped"] IN
        /\ point_cloud' = r.point_cloud
        /\ mpHist' = [mpHist EXCEPT !.cloud = @ \/ r.point_cloud.set]
        /\ mpCall' = MPCall("generate_report", 0, "True")
    /\ UNCHANGED <<mpBuilt, model_data, mesh>>

MPReturn ==
    /\ mpCall # NoMPCall
    /\ mpCall' = NoMPCall
    /\ UNCHANGED <<mpBuilt, model_data, point_cloud, mesh, mpHist>>

\* ------------------------------------------------------------------
\* The last call was made out of order: its prerequisite was missing in
\* the state it was made in.
MPOutOfOrder ==
    \/ /\ mpCall.method = "process_point_cloud" /\ mpCall.arg = -1
       /\ mpCall.pre.model_data = "None"
    \/ /\ mpCall.method = "reconstruct_mesh"
       /\ ~mpCall.pre.point_cloud.set
    \/ /\ mpCall.method \in {"simplify_mesh", "texture_mapping"}
       /\ ~mpCall.pre.mesh.set

\* C6: process_point_cloud() without data succeeds only after a model was
\* loaded, reconstruct_mesh only after a point cloud was obtained (stored by
\* a process_point_cloud call that was given one or extracted one),
\* simplify_mesh and texture_mapping only after reconstruct_mesh succeeded;
\* a call out of order returns an error dict and leaves model_data,
\* point_cloud and mesh as they were.
C6_OrderOfOperations ==
    /\ (mpCall.method = "process_point_cloud" /\ mpCall.arg = -1
            /\ mpCall.kind = "success") => mpHist.loaded
    /\ (mpCall.method = "reconstruct_mesh" /\ mpCall.kind = "success") => mpHist.cloud
    /\ (mpCall.method \in {"simplify_mesh", "texture_mapping"}
            /\ mpCall.kind = "success") => mpHist.meshed
    /\ MPOutOfOrder => (mpCall.kind = "error" /\ MPState = mpCall.pre)

\* The whole pipeline ran in order: texture_mapping succeeded on a mesh
\* rebuilt from a cloud extracted from a loaded model.
C6_Witness ==
    /\ mpCall.method = "texture_mapping" /\ mpCall.kind = "success"
    /\ mpHist.loaded /\ mpHist.cloud /\ mpHist.meshed
    /\ point_cloud.points = NumPoints

\* reconstruct_mesh was called before any point cloud and answered with an
\* error dict.
C6_WitnessOutOfOrder ==
    /\ MPOutOfOrder
    /\ mpCall.method = "reconstruct_mesh"
    /\ mpCall.kind = "error"

(***************************************************************************)
(*   philosophy-thought-research/scripts/argument_analysis/                *)
(*   argument_analyzer.py                                                  *)
(*                                                                         *)
(*   A sentence is the sequence of its characters.                         *)
(***************************************************************************)

\* premise_markers (lines 89-94)
premise_markers ==
    <<
       <<"b", "e", "c", "a", "u", "s", "e">>,
       <<"s", "i", "n", "c", "e">>,
       <<"a", "s">>,
       <<"f", "o", "r">>,
       <<"g", "i", "v", "e", "n", " ", "t", "h", "a", "t">>,
       <<"a", "s", "s", "u", "m", "i", "n", "g", " ", "t", "h", "a", "t">>,
       <<"d", "u", "e", " ", "t", "o">>,
       <<"o", "w", "i", "n", "g", " ", "t", "o">>,
       <<"o", "n", " ", "a", "c", "c", "o", "u", "n", "t", " ", "o", "f">>,
       <<"i", "n", " ", "v", "i", "e", "w", " ", "o", "f">>,
       <<"c", "o", "n", "s", "i", "d", "e", "r", "i", "n", "g", " ", "t", "h", "a", "t">>,
       <<"f", "i", "r", "s", "t", "l", "y">>,
       <<"s", "e", "c", "o", "n", "d", "l", "y">>,
       <<"t", "h", "i", "r", "d", "l", "y">>,
       <<"f", "i", "n", "a", "l", "l", "y">>,
       <<"f", "u", "r", "t", "h", "e", "r", "m", "o", "r", "e">>,
       <<"m", "o", "r", "e", "o", "v", "e", "r">>,
       <<"a", "d", "d", "i", "t", "i", "o", "n", "a", "l", "l", "y">>,
       <<"i", "n", " ", "a", "d", "d", "i", "t", "i", "o", "n">>,
       <<"b", "e", "s", "i", "d", "e", "s">>,
       <<"w", "h", "a", "t", " ", "i", "s", " ", "m", "o", "r", "e">>
    >>

\* conclusion_markers (lines 96-101)
conclusion_markers ==
    <<
       <<"t", "h", "e", "r", "e", "f", "o", "r", "e">>,
       <<"t", "h", "u", "s">>,
       <<"h", "e", "n", "c", "e">>,
       <<"c", "o", "n", "s", "e", "q", "u", "e", "n", "t", "l", "y">>,
       <<"a", "s", " ", "a", " ", "r", "e", "s", "u", "l", "t">>,
       <<"s", "o">>,
       <<"i", "t", " ", "f", "o", "l", "l", "o", "w", "s", " ", "t", "h", "a", "t">>,
       <<"w", "e", " ", "c", "a", "n", " ", "c", "o", "n", "c", "l", "u", "d", "e", " ", "t", "h", "a", "t">>,
       <<"t", "h", "u", "s", " ", "w", "e", " ", "s", "e", "e", " ", "t", "h", "a", "t">>,
       <<"i", "n", " ", "c", "o", "n", "c", "l", "u", "s", "i", "o", "n">>,
       <<"t", "o", " ", "c", "o", "n", "c", "l", "u", "d", "e">>,
       <<"f", "i", "n", "a", "l", "l", "y">>,
       <<"a", "c", "c", "o", "r", "d", "i", "n", "g", "l", "y">>,
       <<"h", "e", "n", "c", "e", "f", "o", "r", "t", "h">>,
       <<"e", "r", "g", "o">>,
       <<"t", "h", "e", "r", "e", "f", "o", "r", "e">>,
       <<"t", "h", "e", "r", "e", "b", "y">>,
       <<"w", "h", "e", "r", "e", "f", "o", "r", "e">>
    >>

\* The sentences sent_tokenize hands over, as written in the text.
ALL_MEN_DIE ==
    <<"A", "l", "l", " ", "m", "e", "n", " ", "d", "i", "e", ".">>
HE_IS_HUMAN ==
    <<"H", "e", " ", "i", "s", " ", "h", "u", "m", "a", "n", ".">>
THEREFORE_HE_DIES ==
    <<"T", "h", "e", "r", "e", "f", "o", "r", "e", " ", "h", "e", " ", "d", "i", "e", "s", ".">>
THUS_HE_DIES ==
    <<"T", "h", "u", "s", " ", "h", "e", " ", "d", "i", "e", "s", ".">>
BECAUSE_HE_LIVES ==
    <<"B", "e", "c", "a", "u", "s", "e", " ", "h", "e", " ", "l", "i", "v", "e", "s", ".">>
AS_A_RESULT ==
    <<"A", "s", " ", "a", " ", "r", "e", "s", "u", "l", "t", " ", "h", "e", " ", "d", "i", "e", "s", ".">>
SentenceUniverse ==
    {ALL_MEN_DIE, HE_IS_HUMAN, THEREFORE_HE_DIES, THUS_HE_DIES, BECAUSE_HE_LIVES, AS_A_RESULT}

\* Longest list of sentences tried.
MaxSentences == 3

\* str.lower() on one character, for the capitals the sentences use.
LowerChar(c) ==
    CASE c = "A" -> "a"
      [] c = "B" -> "b"
      [] c = "H" -> "h"
      [] c = "T" -> "t"
      [] OTHER -> c

\* sentence.lower() (line 113)
Lower(s) == [i \in 1..Len(s) |-> LowerChar(s[i])]

\* any(marker in sentence_lower for marker in markers) (lines 116, 119)
AnyMarkerIn(markers, sentence_lower) ==
    \E k \in 1..Len(markers) : Contains(sentence_lower, markers[k])

contains_conclusion_marker(sentence) == AnyMarkerIn(conclusion_markers, Lower(sentence))
contains_premise_marker(sentence) == AnyMarkerIn(premise_markers, Lower(sentence))

\* 'conclusion': None is the empty sequence here; no sentence is empty.
NoConclusion == <<>>

\* The dict of lines 105-110 and 134-139.
NewArgument ==
    [premises |-> <<>>, conclusion |-> NoConclusion,
     inference_type |-> "deductive", sentence_indices |-> <<>>]

\* The branch of lines 121-144 a sentence takes.
SentenceRole(sentence) ==
    IF contains_premise_marker(sentence) THEN "premise"
    ELSE IF contains_conclusion_marker(sentence) THEN "conclusion"
    ELSE "premise"

\* The indices generate_argument_summary is called with.
SummaryIndices == -(MaxSentences + 1)..MaxSentences

\* No summary was asked for.
NoSummary ==
    [kind |-> "none", argument_index |-> 0, number |-> 0,
     premises |-> <<>>, conclusion |-> NoConclusion]

\* self.arguments[argument_index] for an index the list accepts: a negative
\* index counts from the end of the list.
ArgumentAt(args, argument_index) ==
    args[IF argument_index >= 0 THEN argument_index + 1
         ELSE Len(args) + argument_index + 1]

\* ArgumentAnalyzer.generate_argument_summary (lines 363-395): "not_found"
\* is the string returned by line 374, "raise" the IndexError of line 376,
\* "summary" the text, known by the number in its heading and by the
\* premises and the conclusion it lists.
generate_argument_summary(argument_index, args) ==
    IF args = <<>> \/ argument_index >= Len(args)
    THEN [NoSummary EXCEPT !.kind = "not_found", !.argument_index = argument_index]
    ELSE IF argument_index < -Len(args)
    THEN [NoSummary EXCEPT !.kind = "raise", !.argument_index = argument_index]
    ELSE [kind |-> "summary", argument_index |-> argument_index,
          number |-> argument_index + 1,
          premises |-> ArgumentAt(args, argument_index).premises,
          conclusion |-> ArgumentAt(args, argument_index).conclusion]

AAInit ==
    /\ sentences = <<>>
    /\ aaPc = "idle"
    /\ aaI = 0
    /\ current_argument = NewArgument
    /\ arguments = <<>>
    /\ aaSummary = NoSummary

\* ArgumentAnalyzer(text_content=...) followed by extract_arguments() up to
\* the loop (lines 85-110); i counts from 0 as enumerate does.
AAStart ==
    /\ aaPc = "idle"
    /\ \E n \in 0..MaxSentences : \E ss \in [1..n -> SentenceUniverse] :
        /\ sentences' = ss
        /\ aaPc' = IF ss = <<>> THEN "done" ELSE "loop"
    /\ aaI' = 0
    /\ current_argument' = NewArgument
    /\ arguments' = <<>>
    /\ UNCHANGED aaSummary

\* One iteration of the loop (lines 112-144).
AALoop ==
    /\ aaPc = "loop"
    /\ aaI < Len(sentences)
    /\ LET sentence == sentences[aaI + 1]
           withIndex == Append(current_argument.sentence_indices, aaI) IN
        IF SentenceRole(sentence) = "premise"
        THEN /\ current_argument' =
                    [current_argument EXCEPT
                        !.premises = Append(@, sentence),
                        !.sentence_indices = withIndex]
             /\ UNCHANGED arguments
        ELSE LET closed == [current_argument EXCEPT
                                !.conclusion = sentence,
                                !.sentence_indices = withIndex] IN
             IF closed.premises # <<>>
             THEN /\ arguments' = Append(arguments, closed)
                  /\ current_argument' = NewArgument
             ELSE /\ current_argument' = closed
                  /\ UNCHANGED arguments
    /\ aaI' = aaI + 1
    /\ UNCHANGED <<sentences, aaPc, aaSummary>>

\* After the loop (lines 146-158).
AAFinish ==
    /\ aaPc = "loop"
    /\ aaI = Len(sentences)
    /\ LET n == Len(current_argument.premises)
           inferred ==
               IF current_argument.conclusion = NoConclusion /\ n > 1
               THEN [current_argument EXCEPT
                        !.conclusion = current_argument.premises[n],
                        !.premises = SubSeq(current_argument.premises, 1, n - 1)]
               ELSE current_argument IN
        IF n > 0
        THEN /\ current_argument' = inferred
             /\ arguments' = IF inferred.conclusion # NoConclusion
                             THEN Append(arguments, inferred)
                             ELSE arguments
        ELSE UNCHANGED <<current_argument, arguments>>
    /\ aaPc' = "done"
    /\ UNCHANGED <<sentences, aaI, aaSummary>>

\* The list is returned; the analyzer is dropped.
AAReturn ==
    /\ aaPc = "done"
    /\ aaPc' = "idle"
    /\ sentences' = <<>>
    /\ aaI' = 0
    /\ current_argument' = NewArgument
    /\ arguments' = <<>>
    /\ aaSummary' = NoSummary

\* generate_argument_summary(argument_index) on the arguments extracted.
AAGenerateSummary ==
    /\ aaPc = "done"
    /\ aaSummary = NoSummary
    /\ \E argument_index \in SummaryIndices :
        aaSummary' = generate_argument_summary(argument_index, arguments)
    /\ UNCHANGED <<sentences, aaPc, aaI, current_argument, arguments>>

\* ------------------------------------------------------------------
\* The premises recorded so far, in closed arguments and in the current one.
RecordedPremises ==
    UNION { SeqToSet(arguments[k].premises) : k \in 1..Len(arguments) }
        \cup SeqToSet(current_argument.premises)

\* C7: a sentence that contains a conclusion marker is recorded as the
\* conclusion of the current argument, never as a premise.
C7_ConclusionMarkerNeverPremise ==
    \A p \in RecordedPremises : ~contains_conclusion_marker(p)

\* "He is human. Therefore he dies. Thus he dies." was analysed: the
\* sentence with 'therefore' is a premise of the argument returned.
C7_ThereforeIsPremise ==
    /\ aaPc = "done"
    /\ sentences = <<HE_IS_HUMAN, THEREFORE_HE_DIES, THUS_HE_DIES>>
    /\ arguments = << [premises |-> <<HE_IS_HUMAN, THEREFORE_HE_DIES>>,
                       conclusion |-> THUS_HE_DIES,
                       inference_type |-> "deductive",
                       sentence_indices |-> <<0, 1, 2>>] >>

\* C17: generate_argument_summary(i) returns the not-found string for every
\* i that is negative or not below the number of arguments, and for every
\* other i the summary of argument i, headed with the number i + 1.
C17_SummaryOrNotFound ==
    aaSummary.kind # "none" =>
        LET i == aaSummary.argument_index IN
        IF i < 0 \/ i >= Len(arguments)
        THEN aaSummary.kind = "not_found"
        ELSE /\ aaSummary.kind = "summary"
             /\ aaSummary.number = i + 1
             /\ aaSummary.premises = arguments[i + 1].premises
             /\ aaSummary.conclusion = arguments[i + 1].conclusion

\* C17: generate_argument_summary(-1) on a non-empty list returns the
\* summary of the last argument, headed with the number 0.
C17_NegativeIndexSummarised ==
    /\ aaSummary.kind = "summary"
    /\ aaSummary.argument_index = -1
    /\ arguments # <<>>
    /\ aaSummary.number = 0
    /\ aaSummary.conclusion = arguments[Len(arguments)].conclusion

\* C17: an index below -len(arguments) leaves the method with an IndexError.
C17_NegativeIndexRaises ==
    /\ aaSummary.kind = "raise"
    /\ arguments # <<>>
    /\ aaSummary.argument_index < -Len(arguments)

\* C17: a valid index gives the summary of that argument.
C17_ValidIndexSummarised ==
    /\ aaSummary.kind = "summary"
    /\ aaSummary.argument_index = 0
    /\ aaSummary.number = 1
    /\ aaSummary.premises = arguments[1].premises

(***************************************************************************)
(*   philosophy-thought-research/scripts/influence_network_analysis/       *)
(*   influence_network_analyzer.py                                         *)
(*                                                                         *)
(*   self.network is a networkx DiGraph: its nodes in the order they were  *)
(*   added and its edges in the order they were first added (a second      *)
(*   add_edge of the same pair replaces the attributes in place), which is *)
(*   the order networkx iterates successors in.                            *)
(***************************************************************************)

\* The names used; "x" is never declared as an influencer.
Thinkers == {"p", "a", "d", "x"}

\* The influencers dicts tried, by their keys in insertion order.
InfluencerKeys == { <<"p", "a", "d">>, <<"d", "p">>, <<"a">> }

Relationship(s, t, w) == [source |-> s, target |-> t, weight |-> w, relation |-> "influence"]

\* The relationship tuples the lists are drawn from.
RelationshipUniverse ==
    { Relationship("p", "a", 2), Relationship("a", "d", 2),
      Relationship("p", "d", 1), Relationship("p", "d", 5),
      Relationship("d", "p", 1), Relationship("p", "x", 1) }

\* Longest relationships list tried.
MaxRelationships == 3
\* Largest max_paths tried; max_paths is a number of paths, from 0 up.
MaxPaths == 2

EmptyNetwork == [nodes |-> <<>>, edges |-> <<>>]

HasNode(net, n) == \E i \in 1..Len(net.nodes) : net.nodes[i] = n
HasEdge(net, s, t) ==
    \E i \in 1..Len(net.edges) : net.edges[i].source = s /\ net.edges[i].target = t

\* DiGraph.add_node: a node already there keeps its place.
add_node(net, n) ==
    IF HasNode(net, n) THEN net ELSE [net EXCEPT !.nodes = Append(@, n)]

\* DiGraph.add_edge(source, target, weight=..., relation=...): endpoints
\* that are not nodes yet are added; an edge already there takes the new
\* attributes and keeps its place.
add_edge(net, e) ==
    LET withNodes == add_node(add_node(net, e.source), e.target) IN
    IF HasEdge(net, e.source, e.target)
    THEN [withNodes EXCEPT !.edges =
            [i \in 1..Len(net.edges) |->
                IF net.edges[i].source = e.source /\ net.edges[i].target = e.target
                THEN e ELSE net.edges[i]]]
    ELSE [withNodes EXCEPT !.edges = Append(@, e)]

\* The first loop of build_influence_network (lines 14-15).
RECURSIVE AddInfluencers(_, _)
AddInfluencers(net, keys) ==
    IF keys = <<>> THEN net
    ELSE AddInfluencers(add_node(net, Head(keys)), Tail(keys))

\* A loop body that adds every relationship, declared endpoints or not.
AddRelationship_NoEndpointCheck(net, e) == add_edge(net, e)

\* The body of the second loop (lines 18-20).
AddRelationship(net, e) ==
    IF HasNode(net, e.source) /\ HasNode(net, e.target)
    THEN add_edge(net, e)
    ELSE net

RECURSIVE AddRelationships(_, _)
AddRelationships(net, rels) ==
    IF rels = <<>> THEN net
    ELSE AddRelationships(AddRelationship(net, Head(rels)), Tail(rels))

\* InfluenceNetworkAnalyzer.build_influence_network (lines 11-22)
build_influence_network(net, keys, rels) ==
    AddRelationships(AddInfluencers(net, keys), rels)

\* self.network[u][v].get('weight', 1.0) (line 136)
EdgeWeight(net, u, v) ==
    LET i == CHOOSE i \in 1..Len(net.edges) :
                net.edges[i].source = u /\ net.edges[i].target = v
    IN net.edges[i].weight

\* nx.all_simple_paths(G, source, target) for nodes of G with
\* source # target: a depth-first walk that takes the successors in
\* adjacency order, never revisits a node of the path, and stops a branch
\* at the target.  k is the position in net.edges the walk has reached
\* while looking through the successors of the last node of visited.
RECURSIVE SimplePathsVia(_, _, _, _)
SimplePathsVia(net, visited, target, k) ==
    IF k > Len(net.edges) THEN <<>>
    ELSE LET e == net.edges[k]
             child == e.target
             here ==
                IF e.source # visited[Len(visited)] THEN <<>>
                ELSE IF child \in SeqToSet(visited) THEN <<>>
                ELSE IF child = target THEN << Append(visited, child) >>
                ELSE SimplePathsVia(net, Append(visited, child), target, 1)
         IN here \o SimplePathsVia(net, visited, target, k + 1)

\* Python's list.sort on records with an integer key: ascending, equal
\* keys in their original order.
RECURSIVE InsertByKey(_, _)
InsertByKey(sorted, e) ==
    IF sorted = <<>> THEN <<e>>
    ELSE IF e.key < sorted[1].key THEN <<e>> \o sorted
    ELSE <<sorted[1]>> \o InsertByKey(Tail(sorted), e)

RECURSIVE SortByKey(_)
SortByKey(s) ==
    IF s = <<>> THEN <<>>
    ELSE InsertByKey(SortByKey(SubSeq(s, 1, Len(s) - 1)), s[Len(s)])

\* s[:n] of a Python list.
SliceTo(s, n) ==
    IF n >= 0 THEN SubSeq(s, 1, IF n < Len(s) THEN n ELSE Len(s))
    ELSE SubSeq(s, 1, IF Len(s) + n > 0 THEN Len(s) + n ELSE 0)

\* The weight of lines 134-137, with integer weights.
RECURSIVE PathWeight(_, _)
PathWeight(net, path) ==
    IF Len(path) < 2 THEN 1
    ELSE EdgeWeight(net, path[1], path[2]) * PathWeight(net, Tail(path))

\* Lines 126-129 without the sort by length.
ShortestPaths_Unsorted(all_paths, max_paths) == SliceTo(all_paths, max_paths)

\* all_paths.sort(key=len); shortest_paths = all_paths[:max_paths]
\* (lines 126-129)
ShortestPaths(all_paths, max_paths) ==
    LET keyed == [i \in 1..Len(all_paths) |->
                    [key |-> Len(all_paths[i]), path |-> all_paths[i]]]
        sorted == SortByKey(keyed)
    IN SliceTo([i \in 1..Len(sorted) |-> sorted[i].path], max_paths)

\* Lines 132-143: the (path, weight) pairs of the paths kept, sorted by
\* weight with reverse=True, which keeps equal weights in their order.
PathWeights(net, shortest_paths) ==
    LET keyed == [i \in 1..Len(shortest_paths) |->
                    [key |-> 0 - PathWeight(net, shortest_paths[i]),
                     path |-> shortest_paths[i]]]
        sorted == SortByKey(keyed)
    IN [i \in 1..Len(sorted) |->
            [path |-> sorted[i].path, weight |-> 0 - sorted[i].key]]

\* InfluenceNetworkAnalyzer.analyze_influence_paths (lines 119-148): the
\* lists it can return.  A source or target that is no node makes
\* all_simple_paths raise NodeNotFound, which line 146 catches.  For
\* source = target networkx yields nothing up to 3.1 and the one-node path
\* from 3.2 on.
analyze_influence_paths(net, source, target, max_paths) ==
    IF ~HasNode(net, source) \/ ~HasNode(net, target) THEN { <<>> }
    ELSE IF source = target
    THEN { <<>>, PathWeights(net, ShortestPaths(<< <<source>> >>, max_paths)) }
    ELSE { PathWeights(net,
              ShortestPaths(SimplePathsVia(net, <<source>>, target, 1), max_paths)) }

NoQuery == [source |-> "", target |-> "", max_paths |-> 0, result |-> <<>>, made |-> FALSE]

INInit ==
    /\ inPc = "fresh"
    /\ network = EmptyNetwork
    /\ inInput = [influencers |-> <<>>, relationships |-> <<>>]
    /\ inQuery = NoQuery

\* build_influence_network(influencers, relationships) on a fresh analyzer.
INBuild ==
    /\ inPc = "fresh"
    /\ \E keys \in InfluencerKeys : \E n \in 0..MaxRelationships :
       \E rels \in [1..n -> RelationshipUniverse] :
        /\ inInput' = [influencers |-> keys, relationships |-> rels]
        /\ network' = build_influence_network(network, keys, rels)
    /\ inPc' = "built"
    /\ UNCHANGED inQuery

INAnalyzePaths ==
    /\ inPc = "built"
    /\ ~inQuery.made
    /\ \E source \in Thinkers, target \in Thinkers, max_paths \in 0..MaxPaths :
       \E result \in analyze_influence_paths(network, source, target, max_paths) :
        inQuery' = [source |-> source, target |-> target, max_paths |-> max_paths,
                    result |-> result, made |-> TRUE]
    /\ UNCHANGED <<inPc, network, inInput>>

INReturn ==
    /\ inQuery.made
    /\ inQuery' = NoQuery
    /\ UNCHANGED <<inPc, network, inInput>>

\* ------------------------------------------------------------------
INKeys == SeqToSet(inInput.influencers)
INRelationships == SeqToSet(inInput.relationships)
INEdgePairs == { <<network.edges[i].source, network.edges[i].target>> : i \in 1..Len(network.edges) }

\* C8: after build_influence_network on a fresh analyzer the nodes are
\* exactly the influencer keys and the edges exactly the (source, target)
\* pairs of the relationships whose two endpoints are influencer keys.
C8_NodesAndEdgesAsDeclared ==
    inPc = "built" =>
        /\ SeqToSet(network.nodes) = INKeys
        /\ INEdgePairs =
             { <<r.source, r.target>> :
                 r \in { q \in INRelationships : q.source \in INKeys /\ q.target \in INKeys } }

\* A network was built from a list with a relationship to the undeclared
\* "x" and a relationship between declared influencers: the second is an
\* edge, the first is not and "x" is no node.
C8_Witness ==
    /\ inPc = "built"
    /\ Relationship("p", "x", 1) \in INRelationships
    /\ <<"p", "d">> \in INEdgePairs
    /\ ~HasNode(network, "x")
    /\ <<"p", "x">> \notin INEdgePairs

\* path is a simple directed path of the network from source to target.
IsSimplePath(path, source, target) ==
    /\ Len(path) >= 1
    /\ path[1] = source /\ path[Len(path)] = target
    /\ \A i, j \in 1..Len(path) : i # j => path[i] # path[j]
    /\ \A i \in 1..(Len(path) - 1) : HasEdge(network, path[i], path[i + 1])

\* The simple directed paths with at least one edge from source to target.
SimplePathSet(source, target) ==
    { path \in UNION { [1..n -> SeqToSet(network.nodes)] : n \in 2..Len(network.nodes) } :
        IsSimplePath(path, source, target) }

\* The product of the weights of the edges of path.
WeightProduct(path) ==
    LET RECURSIVE Upto(_)
        Upto(i) == IF i = 0 THEN 1
                   ELSE Upto(i - 1) * EdgeWeight(network, path[i], path[i + 1])
    IN Upto(Len(path) - 1)

INResultPaths == { inQuery.result[i].path : i \in 1..Len(inQuery.result) }

\* What C9 states of a result apart from the number of pairs: simple paths
\* from source to target, weights that are products, none longer than a
\* path left out, non-increasing weights, and the empty list when there is
\* no path or an endpoint is missing.
INResultWellFormed ==
    LET q == inQuery
        all == SimplePathSet(q.source, q.target) IN
    /\ \A i \in 1..Len(q.result) :
          /\ IsSimplePath(q.result[i].path, q.source, q.target)
          /\ q.result[i].weight = WeightProduct(q.result[i].path)
    /\ \A i, j \in 1..Len(q.result) : i # j => q.result[i].path # q.result[j].path
    /\ q.source # q.target =>
          \A kept \in INResultPaths : \A left \in all \ INResultPaths :
              Len(kept) <= Len(left)
    /\ \A i \in 1..(Len(q.result) - 1) : q.result[i].weight >= q.result[i + 1].weight
    /\ (q.source # q.target /\ all = {}) => q.result = <<>>
    /\ (~HasNode(network, q.source) \/ ~HasNode(network, q.target)) => q.result = <<>>

MinOf(a, b) == IF a < b THEN a ELSE b

\* C9: analyze_influence_paths returns at most max_paths pairs, the
\* max_paths shortest simple paths from source to target (all of them when
\* there are fewer), each with the product of its edge weights, in
\* non-increasing weight order, and the empty list when no path exists or
\* an endpoint is missing.
C9_AtMostMaxPathsShortest ==
    inQuery.made =>
        /\ INResultWellFormed
        /\ Len(inQuery.result) <= inQuery.max_paths
        /\ inQuery.source # inQuery.target =>
              Len(inQuery.result) =
                  MinOf(inQuery.max_paths,
                        Cardinality(SimplePathSet(inQuery.source, inQuery.target)))

\* From p to d there are the paths p-d (weight 1) and p-a-d (weight 4);
\* with max_paths = 1 only the shorter one is returned, with 2 both, the
\* longer and heavier one first.
C9_Witness ==
    /\ inQuery.made
    /\ inQuery.source = "p" /\ inQuery.target = "d"
    /\ Cardinality(SimplePathSet("p", "d")) = 2
    /\ \/ /\ inQuery.max_paths = 1
          /\ inQuery.result = << [path |-> <<"p", "d">>, weight |-> 1] >>
       \/ /\ inQuery.max_paths = 2
          /\ inQuery.result = << [path |-> <<"p", "a", "d">>, weight |-> 4],
                                 [path |-> <<"p", "d">>, weight |-> 1] >>

(***************************************************************************)
(*   philosophy-thought-research/scripts/semantic_network/                 *)
(*   semantic_network_analyzer.py                                          *)
(*                                                                         *)
(*   A text and a word are sequences of characters.  self.network is a     *)
(*   networkx Graph: its nodes in the order added, and each undirected     *)
(*   edge once, as [source, target, weight] in the orientation it was      *)
(*   first added in.                                                       *)
(***************************************************************************)

\* The characters texts are made of: letters in both cases, a character
\* that strip removes, and white space.
TextChars == {"a", "A", "b", ".", " "}
\* Longest text tried.
MaxTextLen == 5
\* Largest window_size tried; the smallest is -1.
MaxWindow == 2

\* The characters of word.strip('.,!?:;"()[]') (line 14)
StripChars == {".", ",", "!", "?", ":", ";", "\"", "(", ")", "[", "]"}

\* str.split() without arguments: the maximal runs of characters that are
\* not white space.  cur is the run being read.
RECURSIVE SplitFrom(_, _, _)
SplitFrom(s, k, cur) ==
    IF k > Len(s) THEN (IF cur = <<>> THEN <<>> ELSE <<cur>>)
    ELSE IF s[k] = " "
    THEN (IF cur = <<>> THEN <<>> ELSE <<cur>>) \o SplitFrom(s, k + 1, <<>>)
    ELSE SplitFrom(s, k + 1, Append(cur, s[k]))

Split(s) == SplitFrom(s, 1, <<>>)

\* str.strip(chars): leading and trailing characters of the set removed.
RECURSIVE LStrip(_)
LStrip(w) ==
    IF w # <<>> /\ w[1] \in StripChars THEN LStrip(Tail(w)) ELSE w

RECURSIVE RStrip(_)
RStrip(w) ==
    IF w # <<>> /\ w[Len(w)] \in StripChars
    THEN RStrip(SubSeq(w, 1, Len(w) - 1)) ELSE w

Strip(w) == RStrip(LStrip(w))

\* Lines 13-15: lower-cased, split, stripped, the empty words dropped.
Words(text) ==
    LET split == Split(Lower(text))
        stripped == [i \in 1..Len(split) |-> Strip(split[i])]
    IN SelectSeq(stripped, LAMBDA w : w # <<>>)

\* Graph.has_edge(u, v) of an undirected graph.
has_edge(net, u, v) == HasEdge(net, u, v) \/ HasEdge(net, v, u)

\* Lines 28-31: the edge's weight goes up by one, or the edge is added
\* with weight 1.
AddCoOccurrence(net, word, neighbor) ==
    IF has_edge(net, word, neighbor)
    THEN [net EXCEPT !.edges =
            [i \in 1..Len(net.edges) |->
                IF {net.edges[i].source, net.edges[i].target} = {word, neighbor}
                THEN [net.edges[i] EXCEPT !.weight = @ + 1]
                ELSE net.edges[i]]]
    ELSE [net EXCEPT !.edges =
            Append(@, [source |-> word, target |-> neighbor, weight |-> 1])]

\* A window that ends one word early.
WindowEnd_OneShort(i, window_size, n) ==
    IF i + window_size - 1 < n THEN i + window_size - 1 ELSE n

\* The last j of range(i+1, min(i+window_size+1, len(words))) (line 23),
\* with positions counted from 1.
WindowEnd(i, window_size, n) ==
    IF i + window_size < n THEN i + window_size ELSE n

\* The inner loop (lines 23-31) from position j on.
RECURSIVE InnerLoop(_, _, _, _, _)
InnerLoop(net, words, window_size, i, j) ==
    IF j > WindowEnd(i, window_size, Len(words)) THEN net
    ELSE InnerLoop(AddCoOccurrence(add_node(net, words[j]), words[i], words[j]),
                   words, window_size, i, j + 1)

\* The outer loop (lines 18-31) from position i on.
RECURSIVE OuterLoop(_, _, _, _)
OuterLoop(net, words, window_size, i) ==
    IF i > Len(words) THEN net
    ELSE OuterLoop(InnerLoop(add_node(net, words[i]), words, window_size, i, i + 1),
                   words, window_size, i + 1)

\* SemanticNetworkAnalyzer.build_network_from_text (lines 10-33)
build_network_from_text(net, text, window_size) ==
    OuterLoop(net, Words(text), window_size, 1)

SNInit ==
    /\ snPc = "fresh"
    /\ snNetwork = EmptyNetwork
    /\ snInput = [text |-> <<>>, window_size |-> 0]

\* build_network_from_text(text, window_size) on a fresh analyzer.
SNBuild ==
    /\ snPc = "fresh"
    /\ \E n \in 0..MaxTextLen : \E text \in [1..n -> TextChars] :
       \E window_size \in -1..MaxWindow :
        /\ snInput' = [text |-> text, window_size |-> window_size]
        /\ snNetwork' = build_network_from_text(snNetwork, text, window_size)
    /\ snPc' = "built"

\* The analyzer is dropped and a new one made.
SNDrop ==
    /\ snPc = "built"
    /\ snPc' = "fresh"
    /\ snNetwork' = EmptyNetwork
    /\ snInput' = [text |-> <<>>, window_size |-> 0]

\* ------------------------------------------------------------------
SNTokens == Words(snInput.text)

\* The position pairs (i, j) with 0 < j - i <= window_size.
SNPositionPairs ==
    { ij \in (1..Len(SNTokens)) \X (1..Len(SNTokens)) :
        0 < ij[2] - ij[1] /\ ij[2] - ij[1] <= snInput.window_size }

\* Those whose tokens are a and b in either order.
SNPairsOf(a, b) ==
    { ij \in SNPositionPairs : {SNTokens[ij[1]], SNTokens[ij[2]]} = {a, b} }

RECURSIVE SumWeights(_)
SumWeights(edges) ==
    IF edges = <<>> THEN 0 ELSE Head(edges).weight + SumWeights(Tail(edges))

\* C10: after build_network_from_text on a fresh analyzer the nodes are the
\* distinct non-empty tokens, every pair of tokens with a position pair in
\* the window is one edge whose weight is the number of those position
\* pairs, there is no other edge, and the weights add up to the number of
\* position pairs.
C10_CoOccurrenceWeights ==
    snPc = "built" =>
        /\ SeqToSet(snNetwork.nodes) = SeqToSet(SNTokens)
        /\ \A i \in 1..Len(snNetwork.edges) :
              LET e == snNetwork.edges[i] IN
              /\ e.weight = Cardinality(SNPairsOf(e.source, e.target))
              /\ e.weight > 0
              /\ \A k \in 1..Len(snNetwork.edges) :
                    {snNetwork.edges[k].source, snNetwork.edges[k].target}
                        = {e.source, e.target} => k = i
        /\ \A ij \in SNPositionPairs :
              has_edge(snNetwork, SNTokens[ij[1]], SNTokens[ij[2]])
        /\ SumWeights(snNetwork.edges) = Cardinality(SNPositionPairs)

\* "A a b" with window_size 2 was read as the tokens a, a, b: a loop on a
\* of weight 1 and an edge a-b of weight 2.
C10_Witness ==
    /\ snPc = "built"
    /\ snInput = [text |-> <<"A", " ", "a", " ", "b">>, window_size |-> 2]
    /\ snNetwork.nodes = << <<"a">>, <<"b">> >>
    /\ snNetwork.edges =
         << [source |-> <<"a">>, target |-> <<"a">>, weight |-> 1],
            [source |-> <<"a">>, target |-> <<"b">>, weight |-> 2] >>

(***************************************************************************)
(*   digital-humanities-cultural-heritage/scripts/                         *)
(*   heritage_data_management.py                                           *)
(*                                                                         *)
(*   A value is known by its kind: "absent" (no such key), "empty" (''),   *)
(*   "none" (None), "text" (a non-empty str), "today" (the date string     *)
(*   create_metadata fills in) or "dict" (a nested, non-empty dict).       *)
(***************************************************************************)

\* The keys of artifact_info that matter to validation, and one that does not.
InfoKeys == {"title", "creator", "date", "type", "identifier", "subject"}
InfoKinds == {"absent", "empty", "none", "text"}

\* The standards create_metadata and validate_metadata document, and one
\* they do not.
Standards == {"dublin_core", "mods", "ead"}
OtherStandard == "marc"

\* The top-level keys of the metadata dicts that are modelled.
MetaKeys == InfoKeys \cup {"titleInfo", "name", "originInfo", "typeOfResource", "archdesc"}

\* bool(value) for a value of that kind.
KindTruthy(kind) == kind \in {"text", "today", "dict"}

\* A metadata value: a dict with its top-level keys, or None.
EmptyMetadata == [isDict |-> TRUE, fields |-> [k \in MetaKeys |-> "absent"]]
NoneMetadata == [isDict |-> FALSE, fields |-> [k \in MetaKeys |-> "absent"]]
NoInfo == [k \in InfoKeys |-> "absent"]

\* artifact_info.get(key, default)
InfoGet(artifact_info, key, default) ==
    IF artifact_info[key] = "absent" THEN default ELSE artifact_info[key]

\* A Dublin Core record whose date defaults to '' like the other fields.
create_dublin_core_metadata_NoDateDefault(artifact_info) ==
    [isDict |-> TRUE,
     fields |-> [k \in MetaKeys |->
        IF k \in InfoKeys THEN InfoGet(artifact_info, k, "empty") ELSE "absent"]]

\* HeritageDataManager._create_dublin_core_metadata (lines 82-109)
create_dublin_core_metadata(artifact_info) ==
    [isDict |-> TRUE,
     fields |-> [k \in MetaKeys |->
        IF k = "date" THEN InfoGet(artifact_info, k, "today")
        ELSE IF k \in InfoKeys THEN InfoGet(artifact_info, k, "empty")
        ELSE "absent"]]

\* HeritageDataManager._create_mods_metadata (lines 111-153): title, name
\* part, topic and date sit in nested dicts.
create_mods_metadata(artifact_info) ==
    [isDict |-> TRUE,
     fields |-> [k \in MetaKeys |->
        CASE k \in {"titleInfo", "name", "subject", "originInfo"} -> "dict"
          [] k = "typeOfResource" -> InfoGet(artifact_info, "type", "empty")
          [] k = "identifier" -> InfoGet(artifact_info, "identifier", "empty")
          [] OTHER -> "absent"]]

\* HeritageDataManager._create_ead_metadata (lines 155-180): everything is
\* under archdesc.
create_ead_metadata(artifact_info) ==
    [isDict |-> TRUE,
     fields |-> [k \in MetaKeys |-> IF k = "archdesc" THEN "dict" ELSE "absent"]]

\* HeritageDataManager.create_metadata (lines 54-80), for a dict
\* artifact_info: None for a standard that is not supported.
create_metadata(artifact_info, standard) ==
    CASE standard = "dublin_core" -> create_dublin_core_metadata(artifact_info)
      [] standard = "mods" -> create_mods_metadata(artifact_info)
      [] standard = "ead" -> create_ead_metadata(artifact_info)
      [] OTHER -> NoneMetadata

\* required_fields (line 197)
required_fields == <<"title", "creator", "date", "type", "identifier">>

MissingError(field) == [message |-> "Missing required field", field |-> field]
ExceptionError == [message |-> "exception", field |-> ""]

\* The loop of lines 198-200 from position i on.
RECURSIVE MissingFrom(_, _)
MissingFrom(metadata, i) ==
    IF i > Len(required_fields) THEN <<>>
    ELSE LET field == required_fields[i] IN
         (IF metadata.fields[field] = "absent" \/ ~KindTruthy(metadata.fields[field])
          THEN << MissingError(field) >> ELSE <<>>)
            \o MissingFrom(metadata, i + 1)

\* HeritageDataManager.validate_metadata (lines 182-214): (is_valid,
\* errors).  Only 'dublin_core' has checks; `field not in None` raises
\* TypeError, which line 212 turns into (False, [str(e)]).
validate_metadata(metadata, standard) ==
    IF standard = "dublin_core" /\ ~metadata.isDict
    THEN [is_valid |-> FALSE, errors |-> << ExceptionError >>]
    ELSE LET errors == IF standard = "dublin_core"
                       THEN MissingFrom(metadata, 1) ELSE <<>>
         IN [is_valid |-> Len(errors) = 0, errors |-> errors]

NoValidation == [is_valid |-> FALSE, errors |-> <<>>]

HDMInit ==
    /\ hdmPc = "idle"
    /\ hdmInfo = NoInfo
    /\ hdmCreated = "none"
    /\ hdmMetadata = NoneMetadata
    /\ hdmStandard = "none"
    /\ hdmResult = NoValidation

\* create_metadata(artifact_info, standard) with a dict artifact_info.
HDMCreateMetadata ==
    /\ hdmPc = "idle"
    /\ \E artifact_info \in [InfoKeys -> InfoKinds] :
       \E standard \in Standards \cup {OtherStandard} :
        /\ hdmInfo' = artifact_info
        /\ hdmCreated' = standard
        /\ hdmMetadata' = create_metadata(artifact_info, standard)
    /\ hdmPc' = "created"
    /\ UNCHANGED <<hdmStandard, hdmResult>>

\* validate_metadata(metadata, standard) on the metadata just created, as
\* usage_example.main does.
HDMValidateCreated ==
    /\ hdmPc = "created"
    /\ \E standard \in Standards \cup {OtherStandard} :
        /\ hdmStandard' = standard
        /\ hdmResult' = validate_metadata(hdmMetadata, standard)
    /\ hdmPc' = "validated"
    /\ UNCHANGED <<hdmInfo, hdmCreated, hdmMetadata>>

\* validate_metadata({}, standard): metadata that was not made by
\* create_metadata.
HDMValidateEmpty ==
    /\ hdmPc = "idle"
    /\ \E standard \in Standards \cup {OtherStandard} :
        /\ hdmStandard' = standard
        /\ hdmResult' = validate_metadata(EmptyMetadata, standard)
    /\ hdmMetadata' = EmptyMetadata
    /\ hdmCreated' = "given"
    /\ hdmPc' = "validated"
    /\ UNCHANGED hdmInfo

HDMReturn ==
    /\ hdmPc = "validated"
    /\ hdmPc' = "idle"
    /\ hdmInfo' = NoInfo
    /\ hdmCreated' = "none"
    /\ hdmMetadata' = NoneMetadata
    /\ hdmStandard' = "none"
    /\ hdmResult' = NoValidation

\* ------------------------------------------------------------------
\* The field is absent in the sense of C11: title, creator, type or
\* identifier missing or empty, or a date supplied empty.
HDMFieldAbsent(field) ==
    IF field = "date" THEN hdmInfo[field] \in {"empty", "none"}
    ELSE hdmInfo[field] # "text"

\* C11: validate_metadata(create_metadata(artifact_info, 'dublin_core'),
\* 'dublin_core') is (True, []) exactly when title, creator, type and
\* identifier are non-empty and no empty date is supplied; otherwise it is
\* False with one 'Missing required field' error per absent field, in the
\* order title, creator, date, type, identifier.
C11_DublinCoreRoundTrip ==
    (hdmPc = "validated" /\ hdmCreated = "dublin_core" /\ hdmStandard = "dublin_core") =>
        LET absent == SelectSeq(required_fields, HDMFieldAbsent) IN
        /\ hdmResult.is_valid = (absent = <<>>)
        /\ hdmResult.errors = [i \in 1..Len(absent) |-> MissingError(absent[i])]

\* An artifact without creator and with date '' came back invalid with the
\* errors for creator and date, in that order.
C11_Witness ==
    /\ hdmPc = "validated" /\ hdmCreated = "dublin_core" /\ hdmStandard = "dublin_core"
    /\ hdmInfo = [NoInfo EXCEPT !["title"] = "text", !["date"] = "empty",
                                !["type"] = "text", !["identifier"] = "text"]
    /\ hdmResult = [is_valid |-> FALSE,
                    errors |-> << MissingError("creator"), MissingError("date") >>]

\* An artifact with the four fields and no date came back valid.
C11_WitnessValid ==
    /\ hdmPc = "validated" /\ hdmCreated = "dublin_core" /\ hdmStandard = "dublin_core"
    /\ hdmInfo = [NoInfo EXCEPT !["title"] = "text", !["creator"] = "text",
                                !["type"] = "text", !["identifier"] = "text"]
    /\ hdmResult = [is_valid |-> TRUE, errors |-> <<>>]

\* C12: for each of 'dublin_core', 'mods' and 'ead', validate_metadata
\* reports metadata without the required information, such as the empty
\* dict, as invalid with a non-empty error list, and is_valid is True
\* exactly when the error list is empty.
C12_EveryStandardValidated ==
    (hdmPc = "validated" /\ hdmStandard \in Standards) =>
        /\ hdmResult.is_valid = (hdmResult.errors = <<>>)
        /\ hdmMetadata = EmptyMetadata =>
              (~hdmResult.is_valid /\ hdmResult.errors # <<>>)

\* validate_metadata({}, 'mods') returned (True, []).
C12_EmptyDictValidAsMods ==
    /\ hdmPc = "validated"
    /\ hdmMetadata = EmptyMetadata
    /\ hdmStandard = "mods"
    /\ hdmResult = [is_valid |-> TRUE, errors |-> <<>>]

(***************************************************************************)
(*   digital-humanities-public-education/scripts/                          *)
(*   educational_content_manager.py                                        *)
(*                                                                         *)
(*   The manager keeps no state between calls: each call is modelled as    *)
(*   one step from "idle" that records the method, its argument and its    *)
(*   return value, followed by the return to "idle".                       *)
(***************************************************************************)

\* The six accessibility checks, in the order of the `checks` list.
CheckNames == << "Text alternatives for images", "Captioning for videos",
                 "Keyboard navigation", "Color contrast",
                 "Readable text", "Semantic structure" >>

\* The weight of the i-th check of the `checks` list.
CheckWeight(i) == IF i <= 2 THEN 20 ELSE 15

\* Content handed to create_accessibility_report: a dict (or None) of which
\* the model records, for each check, whether the content really meets it
\* (all its images have text alternatives, all its videos captions, ...).
Contents == [isDict : BOOLEAN, meets : [1..Len(CheckNames) -> BOOLEAN]]

\* EducationalContentManager._check_image_alternatives and the five
\* methods after it: each body is `return True`.
check_image_alternatives(content) == TRUE
check_video_captions(content) == TRUE
check_keyboard_navigation(content) == TRUE
check_color_contrast(content) == TRUE
check_text_readability(content) == TRUE
check_semantic_structure(content) == TRUE

\* The `checks` list built by create_accessibility_report.
AccessibilityChecks(content) ==
    LET pass == << check_image_alternatives(content),
                   check_video_captions(content),
                   check_keyboard_navigation(content),
                   check_color_contrast(content),
                   check_text_readability(content),
                   check_semantic_structure(content) >>
    IN [i \in 1..Len(CheckNames) |->
           [name |-> CheckNames[i], pass |-> pass[i], weight |-> CheckWeight(i)]]

\* sum(c["weight"] for c in checks[:n] if keep(c))
RECURSIVE WeightSum(_, _, _)
WeightSum(checks, n, passedOnly) ==
    IF n = 0 THEN 0
    ELSE WeightSum(checks, n - 1, passedOnly)
         + (IF passedOnly /\ ~checks[n].pass THEN 0 ELSE checks[n].weight)

\* The recommendations list: "Improve <name>" for each failed check, in order.
RECURSIVE Recommendations(_, _)
Recommendations(checks, n) ==
    IF n = 0 THEN <<>>
    ELSE Recommendations(checks, n - 1)
         \o (IF checks[n].pass THEN <<>> ELSE << checks[n].name >>)

\* The value a manager method returns when its except branch ran.
ReturnsNone == [kind |-> "none"]

\* EducationalContentManager.create_accessibility_report.  content.get on
\* None raises, and the except branch returns None.  The weights are
\* multiples of 5 that sum to 100, so (passed / total) * 100 is an integer.
create_accessibility_report(content) ==
    IF ~content.isDict THEN ReturnsNone
    ELSE LET checks == AccessibilityChecks(content)
             total_weight == WeightSum(checks, Len(checks), FALSE)
             passed_weight == WeightSum(checks, Len(checks), TRUE)
         IN [kind |-> "dict",
             accessibility_checks |-> checks,
             compliance_score |-> IF total_weight > 0
                                  THEN (passed_weight * 100) \div total_weight
                                  ELSE 0,
             recommendations |-> Recommendations(checks, Len(checks))]

ECMInit ==
    /\ ecmOp = "idle"
    /\ ecmInput = ReturnsNone
    /\ ecmResult = ReturnsNone

ECMCreateAccessibilityReport ==
    /\ ecmOp = "idle"
    /\ \E content \in Contents :
        /\ ecmInput' = content
        /\ ecmResult' = create_accessibility_report(content)
    /\ ecmOp' = "create_accessibility_report"

ECMReturn ==
    /\ ecmOp # "idle"
    /\ ecmOp' = "idle"
    /\ ecmInput' = ReturnsNone
    /\ ecmResult' = ReturnsNone

\* The weight the checks the content does not meet take off the score.
RECURSIVE UnmetWeight(_, _)
UnmetWeight(content, n) ==
    IF n = 0 THEN 0
    ELSE UnmetWeight(content, n - 1) + (IF content.meets[n] THEN 0 ELSE CheckWeight(n))

\* C13: every check of an accessibility report passes only if the content
\* meets it, so the score is 100 with no recommendation only for content
\* that meets all six checks, and every check the content does not meet
\* takes its weight off the score and adds one recommendation.
C13_ChecksReflectContent ==
    (ecmOp = "create_accessibility_report" /\ ecmResult.kind = "dict") =>
        /\ \A i \in 1..Len(CheckNames) :
              ecmResult.accessibility_checks[i].pass => ecmInput.meets[i]
        /\ (ecmResult.compliance_score = 100 /\ ecmResult.recommendations = <<>>)
              => \A i \in 1..Len(CheckNames) : ecmInput.meets[i]
        /\ ecmResult.compliance_score = 100 - UnmetWeight(ecmInput, Len(CheckNames))
        /\ Len(ecmResult.recommendations)
              = Cardinality({i \in 1..Len(CheckNames) : ~ecmInput.meets[i]})

\* C13: content with an image that has no text alternative is reported with
\* a passed image check, a score of 100 and no recommendation.
C13_UnmetContentScoresFull ==
    /\ ecmOp = "create_accessibility_report"
    /\ ecmResult.kind = "dict"
    /\ ~ecmInput.meets[1]
    /\ ecmResult.accessibility_checks[1].pass
    /\ ecmResult.compliance_score = 100
    /\ ecmResult.recommendations = <<>>

(***************************************************************************)
(*   EducationalContentManager.evaluate_educational_impact                 *)
(*                                                                         *)
(*   Scores are kept in hundredths of a point (round(score, 2) keeps two   *)
(*   decimals), and satisfaction_score in tenths, so that all arithmetic   *)
(*   is on integers.                                                       *)
(***************************************************************************)

\* Longest lists of learning outcomes, feedback items and recommendations.
MaxOutcomes == 3
MaxFeedback == 5
MaxRecommendations == 2

\* A list of n entries, the first k of them flagged (achieved outcomes,
\* positive feedback, implemented recommendations), every entry a dict.
Entries(k, n) == [i \in 1..n |-> [isDict |-> TRUE, flagged |-> i <= k]]

\* A list entry that is not a dict (a str left in the list).
NotADict == [isDict |-> FALSE, flagged |-> FALSE]

\* One engagement metric: missing, None, or a number at or just above the
\* threshold the score compares it with.
Metric(threshold) ==
    {[kind |-> "absent", value |-> 0], [kind |-> "none", value |-> 0],
     [kind |-> "number", value |-> threshold],
     [kind |-> "number", value |-> threshold + 1]}

\* The thresholds of participation_rate, completion_rate and
\* satisfaction_score (4.0, in tenths).
ParticipationThreshold == 70
CompletionThreshold == 60
SatisfactionThreshold == 40

EngagementMetrics ==
    [isDict : {TRUE},
     participation_rate : Metric(ParticipationThreshold),
     completion_rate : Metric(CompletionThreshold) \ {[kind |-> "none", value |-> 0]},
     satisfaction_score : Metric(SatisfactionThreshold) \ {[kind |-> "none", value |-> 0]}]

\* The impact_data given to evaluate_educational_impact: a dict, or None.
\* A missing list key reads as [] and is not told apart from an empty list.
ImpactData ==
    [isDict : BOOLEAN,
     learning_outcomes_achieved :
        {Entries(k, n) : n \in 0..MaxOutcomes, k \in 0..MaxOutcomes}
        \cup {Entries(1, 1) \o << NotADict >>},
     engagement_metrics : EngagementMetrics,
     qualitative_feedback : {Entries(k, n) : n \in 0..MaxFeedback, k \in 0..MaxFeedback},
     recommendations :
        {Entries(k, n) : n \in 0..MaxRecommendations, k \in 0..MaxRecommendations}]

\* sum(1 for e in entries if e.get(<flag>)).
Flagged(entries) == Cardinality({i \in 1..Len(entries) : entries[i].flagged})

\* round(x / y, 0) for x >= 0, y > 0.
RoundDiv(x, y) == (2 * x + y) \div (2 * y)

\* Points that add 10 for a metric at or above its threshold.
MetricPoints_NonStrict(metric, threshold) ==
    IF metric.kind = "number" /\ metric.value >= threshold THEN 1000 ELSE 0

\* `if engagement.get(<metric>, 0) > <threshold>: score += 10`
MetricPoints(metric, threshold) ==
    IF metric.kind = "number" /\ metric.value > threshold THEN 1000 ELSE 0

\* The statements of _calculate_impact_score that raise: .get on a list
\* entry that is not a dict, and None > 70.
ScoreRaises(impact_data) ==
    \/ \E i \in 1..Len(impact_data.learning_outcomes_achieved) :
          ~impact_data.learning_outcomes_achieved[i].isDict
    \/ \E i \in 1..Len(impact_data.qualitative_feedback) :
          ~impact_data.qualitative_feedback[i].isDict
    \/ \E i \in 1..Len(impact_data.recommendations) :
          ~impact_data.recommendations[i].isDict
    \/ impact_data.engagement_metrics.participation_rate.kind = "none"
    \/ impact_data.engagement_metrics.completion_rate.kind = "none"
    \/ impact_data.engagement_metrics.satisfaction_score.kind = "none"

\* EducationalContentManager._calculate_impact_score, in hundredths.
calculate_impact_score(impact_data) ==
    IF ScoreRaises(impact_data) THEN 0
    ELSE
    LET outcomes == impact_data.learning_outcomes_achieved
        total_outcomes == Len(outcomes)
        achieved_outcomes == Flagged(outcomes)
        score1 == IF total_outcomes > 0
                  THEN RoundDiv(achieved_outcomes * 4000, total_outcomes) ELSE 0
        engagement == impact_data.engagement_metrics
        score2 == score1
                  + MetricPoints(engagement.participation_rate, ParticipationThreshold)
                  + MetricPoints(engagement.completion_rate, CompletionThreshold)
                  + MetricPoints(engagement.satisfaction_score, SatisfactionThreshold)
        feedback == impact_data.qualitative_feedback
        positive_feedback == Flagged(feedback)
        score3 == score2
                  + (IF Len(feedback) > 0
                     THEN IF positive_feedback * 10 > 7 * Len(feedback) THEN 2000
                          ELSE IF positive_feedback * 10 > 4 * Len(feedback) THEN 1000
                          ELSE 0
                     ELSE 0)
        recs == impact_data.recommendations
        implemented == Flagged(recs)
        score == score3
                 + (IF Len(recs) > 0 /\ implemented * 2 > Len(recs) THEN 1000 ELSE 0)
    IN IF score < 10000 THEN score ELSE 10000

\* EducationalContentManager.evaluate_educational_impact: impact_data.get
\* on None raises, and the except branch returns None.
evaluate_educational_impact(impact_data) ==
    IF ~impact_data.isDict THEN ReturnsNone
    ELSE [kind |-> "dict",
          learning_outcomes_achieved |-> impact_data.learning_outcomes_achieved,
          engagement_metrics |-> impact_data.engagement_metrics,
          qualitative_feedback |-> impact_data.qualitative_feedback,
          recommendations |-> impact_data.recommendations,
          overall_impact_score |-> calculate_impact_score(impact_data)]

ECMEvaluateEducationalImpact ==
    /\ ecmOp = "idle"
    /\ \E impact_data \in ImpactData :
        /\ ecmInput' = impact_data
        /\ ecmResult' = evaluate_educational_impact(impact_data)
    /\ ecmOp' = "evaluate_educational_impact"

\* 10 points (in hundredths) when the condition holds.
TenIf(condition) == IF condition THEN 1000 ELSE 0

\* C14: the overall_impact_score of an evaluation lies in 0..100; for data
\* whose entries are dicts and whose metrics are numbers it is the share of
\* achieved outcomes times 40 (to two decimals, 0 for no outcomes), plus 10
\* for each of participation_rate > 70, completion_rate > 60 and
\* satisfaction_score > 4.0, plus 20 or 10 for a share of positive feedback
\* above 0.7 or 0.4, plus 10 for more than half the recommendations
\* implemented, empty lists adding nothing.
C14_ImpactScoreInRange ==
    (ecmOp = "evaluate_educational_impact" /\ ecmResult.kind = "dict") =>
    LET d == ecmInput
        score == ecmResult.overall_impact_score
        nO == Len(d.learning_outcomes_achieved)
        aO == Cardinality({i \in 1..nO : d.learning_outcomes_achieved[i].flagged})
        nF == Len(d.qualitative_feedback)
        pF == Cardinality({i \in 1..nF : d.qualitative_feedback[i].flagged})
        nR == Len(d.recommendations)
        iR == Cardinality({i \in 1..nR : d.recommendations[i].flagged})
        e == d.engagement_metrics
        fixed == TenIf(e.participation_rate.kind = "number" /\ e.participation_rate.value > 70)
                 + TenIf(e.completion_rate.kind = "number" /\ e.completion_rate.value > 60)
                 + TenIf(e.satisfaction_score.kind = "number" /\ e.satisfaction_score.value > 40)
                 + (IF nF > 0 /\ 10 * pF > 7 * nF THEN 2000
                    ELSE IF nF > 0 /\ 10 * pF > 4 * nF THEN 1000 ELSE 0)
                 + TenIf(nR > 0 /\ 2 * iR > nR)
        part == score - fixed
    IN /\ score \in 0..10000
       /\ ~ScoreRaises(d) =>
            /\ part \in 0..4000
            /\ nO = 0 => part = 0
            /\ nO > 0 => /\ 2 * (part * nO - 4000 * aO) <= nO
                         /\ 2 * (4000 * aO - part * nO) <= nO

\* C14: one of three outcomes achieved, participation exactly 70, two of
\* five feedback items positive and one of two recommendations implemented
\* score 13.33: every strict threshold is met with equality and adds nothing.
C14_Witness ==
    /\ ecmOp = "evaluate_educational_impact"
    /\ ecmResult.kind = "dict"
    /\ ecmInput.learning_outcomes_achieved = Entries(1, 3)
    /\ ecmInput.engagement_metrics.participation_rate = [kind |-> "number", value |-> 70]
    /\ ecmInput.qualitative_feedback = Entries(2, 5)
    /\ ecmInput.recommendations = Entries(1, 2)
    /\ ecmResult.overall_impact_score = 1333

\* C14: a full score of 100.
C14_WitnessFull ==
    /\ ecmOp = "evaluate_educational_impact"
    /\ ecmResult.kind = "dict"
    /\ Len(ecmInput.qualitative_feedback) > 0
    /\ ecmResult.overall_impact_score = 10000

(***************************************************************************)
(*   EducationalContentManager.create_course, create_digital_story,        *)
(*   create_community_project and generate_lesson_plan                     *)
(*                                                                         *)
(*   An info value is known by its kind: "absent" (no such key), "empty"   *)
(*   ('' or []), "none" (None) or "given" (a non-empty str or list).  A    *)
(*   value the method fills in is "default" when it is non-empty           *)
(*   ("Intermediate", a generated id) and "empty" otherwise.               *)
(***************************************************************************)

FieldKinds == {"absent", "empty", "none", "given"}

\* The keys of course_info, story_info, project_info and lesson_info that
\* are modelled: the id, the validated keys, and one optional key.
CourseKeys == {"id", "title", "description", "level"}
StoryKeys == {"id", "title", "narrative", "author"}
ProjectKeys == {"id", "title", "description", "timeline"}
LessonKeys == {"id", "title", "procedure", "subject"}

\* The info dicts over the given keys, and None.
Infos(keys) == [isDict : {TRUE}, fields : [keys -> FieldKinds]]
NoneInfo(keys) == [isDict |-> FALSE, fields |-> [k \in keys |-> "absent"]]

\* info.get(key, default), default being "empty" or "default".
FieldGet(info, key, default) ==
    IF info.fields[key] = "absent" THEN default ELSE info.fields[key]

\* `not value`
Falsy(kind) == kind \in {"empty", "none"}

\* A created structure: the id is stored under idKey, every other key under
\* its own name; nonEmptyDefaults are the keys whose default is not '' or [].
Created(info, keys, idKey, nonEmptyDefaults) ==
    [kind |-> "dict",
     fields |-> [k \in (keys \ {"id"}) \cup {idKey} |->
        IF k = idKey THEN FieldGet(info, "id", "default")
        ELSE FieldGet(info, k, IF k \in nonEmptyDefaults THEN "default" ELSE "empty")]]

\* The structure if every key in required is truthy, None if the info is not
\* a dict (.get raises) or a ValueError is raised for a required key.
Validated(info, created, required) ==
    IF ~info.isDict THEN ReturnsNone
    ELSE IF \E k \in required : Falsy(created.fields[k]) THEN ReturnsNone
    ELSE created

\* EducationalContentManager.create_course
create_course(course_info) ==
    Validated(course_info,
              Created(course_info, CourseKeys, "course_id", {"level"}),
              {"title"})

\* A digital story that is validated for its title only.
create_digital_story_TitleOnly(story_info) ==
    Validated(story_info,
              Created(story_info, StoryKeys, "story_id", {}),
              {"title"})

\* EducationalContentManager.create_digital_story
create_digital_story(story_info) ==
    Validated(story_info,
              Created(story_info, StoryKeys, "story_id", {}),
              {"title", "narrative"})

\* EducationalContentManager.create_community_project
create_community_project(project_info) ==
    Validated(project_info,
              Created(project_info, ProjectKeys, "project_id", {}),
              {"title", "description"})

\* EducationalContentManager.generate_lesson_plan
generate_lesson_plan(lesson_info) ==
    Validated(lesson_info,
              Created(lesson_info, LessonKeys, "lesson_id", {"subject"}),
              {"title", "procedure"})

ECMCreateCourse ==
    /\ ecmOp = "idle"
    /\ \E course_info \in Infos(CourseKeys) \cup {NoneInfo(CourseKeys)} :
        /\ ecmInput' = course_info
        /\ ecmResult' = create_course(course_info)
    /\ ecmOp' = "create_course"

ECMCreateDigitalStory ==
    /\ ecmOp = "idle"
    /\ \E story_info \in Infos(StoryKeys) \cup {NoneInfo(StoryKeys)} :
        /\ ecmInput' = story_info
        /\ ecmResult' = create_digital_story(story_info)
    /\ ecmOp' = "create_digital_story"

ECMCreateCommunityProject ==
    /\ ecmOp = "idle"
    /\ \E project_info \in Infos(ProjectKeys) \cup {NoneInfo(ProjectKeys)} :
        /\ ecmInput' = project_info
        /\ ecmResult' = create_community_project(project_info)
    /\ ecmOp' = "create_community_project"

ECMGenerateLessonPlan ==
    /\ ecmOp = "idle"
    /\ \E lesson_info \in Infos(LessonKeys) \cup {NoneInfo(LessonKeys)} :
        /\ ecmInput' = lesson_info
        /\ ecmResult' = generate_lesson_plan(lesson_info)
    /\ ecmOp' = "generate_lesson_plan"

\* The keys each method requires, as the claim lists them.
RequiredBy(method) ==
    CASE method = "create_course" -> {"title"}
      [] method = "create_digital_story" -> {"title", "narrative"}
      [] method = "create_community_project" -> {"title", "description"}
      [] method = "generate_lesson_plan" -> {"title", "procedure"}

\* The key of the created structure that holds the supplied id.
IdKeyOf(method) ==
    CASE method = "create_course" -> "course_id"
      [] method = "create_digital_story" -> "story_id"
      [] method = "create_community_project" -> "project_id"
      [] method = "generate_lesson_plan" -> "lesson_id"

\* C15: each of the four methods returns None exactly when one of its
\* required values is missing or empty (create_course: title; story: title,
\* narrative; project: title, description; lesson plan: title, procedure),
\* and otherwise a dict in which every supplied value is unchanged.
C15_NoneExactlyWhenRequiredMissing ==
    (ecmOp \in {"create_course", "create_digital_story",
                "create_community_project", "generate_lesson_plan"}) =>
        LET missing == \/ ~ecmInput.isDict
                       \/ \E k \in RequiredBy(ecmOp) :
                             ecmInput.fields[k] \in {"absent", "empty", "none"}
        IN /\ ecmResult.kind \in {"none", "dict"}
           /\ ecmResult.kind = "none" <=> missing
           /\ ecmResult.kind = "dict" =>
                \A k \in DOMAIN ecmInput.fields :
                    ecmInput.fields[k] # "absent" =>
                        ecmResult.fields[IF k = "id" THEN IdKeyOf(ecmOp) ELSE k]
                            = ecmInput.fields[k]

\* C15: a story with a title but an empty narrative gives None.
C15_Witness ==
    /\ ecmOp = "create_digital_story"
    /\ ecmInput.isDict
    /\ ecmInput.fields["title"] = "given"
    /\ ecmInput.fields["narrative"] = "empty"
    /\ ecmResult.kind = "none"

\* C15: a lesson plan with title and procedure comes back as a dict with the
\* supplied id under lesson_id and the default subject.
C15_WitnessCreated ==
    /\ ecmOp = "generate_lesson_plan"
    /\ ecmInput.fields["id"] = "given"
    /\ ecmInput.fields["subject"] = "absent"
    /\ ecmResult.kind = "dict"
    /\ ecmResult.fields["lesson_id"] = "given"
    /\ ecmResult.fields["subject"] = "default"

\* ------------------------------------------------------------------
\* C16: simplify_mesh(target_faces) succeeds exactly when a mesh exists and
\* target_faces is below its face count, and a successful call reports the
\* face count as original_faces, target_faces as simplified_faces and
\* 1 - target_faces / original_faces as reduction_rate.
C16_SimplifyReportsTarget ==
    mpCall.method = "simplify_mesh" =>
        /\ mpCall.kind = "success"
              <=> (mpCall.pre.mesh.set /\ mpCall.arg < mpCall.pre.mesh.faces)
        /\ mpCall.kind = "success" =>
              /\ mpCall.original_faces = mpCall.pre.mesh.faces
              /\ mpCall.simplified_faces = mpCall.arg
              /\ mpCall.removed_faces = mpCall.original_faces - mpCall.arg

\* C16: simplify_mesh(-1) on a mesh succeeds and reports all faces but one
\* as simplified_faces.
C16_NegativeTargetSucceeds ==
    /\ mpCall.method = "simplify_mesh"
    /\ mpCall.arg = -1
    /\ mpCall.kind = "success"
    /\ mpCall.original_faces = NumFaces
    /\ mpCall.simplified_faces = NumFaces - 1
    /\ mpCall.removed_faces = 1

\* C16: a target between 0 and the face count is reported as it was given.
C16_PositiveTargetKept ==
    /\ mpCall.method = "simplify_mesh"
    /\ mpCall.arg = 1
    /\ mpCall.kind = "success"
    /\ mpCall.simplified_faces = 1
    /\ mpCall.removed_faces = NumFaces - 1

(***************************************************************************)
(*   language-linguistics-research/scripts/                                *)
(*   historical_linguistics_analysis.py                                    *)
(*                                                                         *)
(*   The DiGraph is its nodes with their `type` attribute and its set of   *)
(*   edges <<parent, child>>.                                              *)
(***************************************************************************)

\* Most languages of a family and most dialects of a language tried.
MaxLanguages == 2
MaxDialects == 1

\* The "name" of a family, language or dialect dict: missing, or a string.
GivenNames == {"A", "B"}
NameValues == {"absent"} \cup GivenNames

\* x.get("name", "unknown")
NameOf(x) == IF x.name = "absent" THEN "unknown" ELSE x.name

\* The sequences over S of length at most n.
SeqsUpTo(S, n) == UNION { [1..k -> S] : k \in 0..n }

\* self.data: with or without a "language_family"; a family or language
\* without "languages" or "dialects" reads as one with an empty list.
DialectDicts == [name : NameValues]
LanguageDicts == [name : NameValues, dialects : SeqsUpTo(DialectDicts, MaxDialects)]
FamilyData ==
    [has_family : BOOLEAN, name : NameValues,
     languages : SeqsUpTo(LanguageDicts, MaxLanguages)]

NoFamilyData == [has_family |-> FALSE, name |-> "absent", languages |-> <<>>]

\* nx.DiGraph()
EmptyTree == [types |-> [n \in {} |-> ""], edges |-> {}]

\* G.add_node(n, type=t): a node already there takes the new type.
AddTypedNode(G, n, t) ==
    [G EXCEPT !.types = [m \in DOMAIN G.types \cup {n} |->
                            IF m = n THEN t ELSE G.types[m]]]

\* G.add_edge(u, v) between two nodes of G.
AddTreeEdge(G, u, v) == [G EXCEPT !.edges = @ \cup {<<u, v>>}]

\* The loop over language["dialects"] (lines 259-262), from the k-th on.
RECURSIVE AddDialects(_, _, _, _)
AddDialects(G, language, dialects, k) ==
    IF k > Len(dialects) THEN G
    ELSE AddDialects(
            AddTreeEdge(AddTypedNode(G, NameOf(dialects[k]), "dialect"),
                        NameOf(language), NameOf(dialects[k])),
            language, dialects, k + 1)

\* The loop over family["languages"] (lines 253-262), from the k-th on.
RECURSIVE AddLanguages(_, _, _)
AddLanguages(G, family, k) ==
    IF k > Len(family.languages) THEN G
    ELSE LET language == family.languages[k]
             withLanguage ==
                AddTreeEdge(AddTypedNode(G, NameOf(language), "language"),
                            NameOf(family), NameOf(language))
         IN AddLanguages(AddDialects(withLanguage, language, language.dialects, 1),
                         family, k + 1)

\* HistoricalLinguisticsAnalysis.build_language_tree
build_language_tree(data) ==
    IF ~data.has_family THEN EmptyTree
    ELSE AddLanguages(AddTypedNode(EmptyTree, NameOf(data), "family"), data, 1)

HLAInit ==
    /\ hlaPc = "idle"
    /\ hlaData = NoFamilyData
    /\ hlaTree = EmptyTree

\* HistoricalLinguisticsAnalysis(data).build_language_tree()
HLABuildLanguageTree ==
    /\ hlaPc = "idle"
    /\ \E data \in FamilyData :
        /\ hlaData' = data
        /\ hlaTree' = build_language_tree(data)
    /\ hlaPc' = "built"

\* The graph is returned; the analysis object is dropped.
HLAReturn ==
    /\ hlaPc = "built"
    /\ hlaPc' = "idle"
    /\ hlaData' = NoFamilyData
    /\ hlaTree' = EmptyTree

\* ------------------------------------------------------------------
\* The parents of node n, and the nodes reached from the set S of nodes in
\* one to k steps.
Parents(G, n) == {e[1] : e \in {f \in G.edges : f[2] = n}}
Children(G, S) == {e[2] : e \in {f \in G.edges : f[1] \in S}}
RECURSIVE Descendants(_, _, _)
Descendants(G, S, k) ==
    IF k = 0 THEN {}
    ELSE Children(G, S) \cup Descendants(G, Children(G, S), k - 1)

\* C18: the graph built from a language family is a tree: no self-loop, no
\* cycle, the family node the only node without a parent, the family the
\* single parent of every language node, and exactly one parent, a
\* language, for every dialect node.
C18_LanguageTree ==
    (hlaPc = "built" /\ hlaData.has_family) =>
        LET G == hlaTree
            nodes == DOMAIN G.types
            family == NameOf(hlaData)
        IN /\ \A e \in G.edges : e[1] # e[2]
           /\ \A n \in nodes : n \notin Descendants(G, {n}, Cardinality(nodes))
           /\ {n \in nodes : Parents(G, n) = {}} = {family}
           /\ \A n \in nodes : G.types[n] = "language" => Parents(G, n) = {family}
           /\ \A n \in nodes : G.types[n] = "dialect" =>
                /\ Cardinality(Parents(G, n)) = 1
                /\ \A p \in Parents(G, n) : G.types[p] = "language"

\* C18: a family and a language that both lack a name are one node
\* "unknown" with an edge to itself, which has no node without a parent.
C18_UnnamedSelfLoop ==
    /\ hlaPc = "built"
    /\ hlaData.has_family
    /\ hlaData.name = "absent"
    /\ Len(hlaData.languages) = 1
    /\ hlaData.languages[1].name = "absent"
    /\ <<"unknown", "unknown">> \in hlaTree.edges
    /\ \A n \in DOMAIN hlaTree.types : Parents(hlaTree, n) # {}

\* C18: a dialect name used under two languages is one node with two parents.
C18_SharedDialectTwoParents ==
    /\ hlaPc = "built"
    /\ hlaData.has_family
    /\ \E d \in DOMAIN hlaTree.types :
          /\ hlaTree.types[d] = "dialect"
          /\ Cardinality(Parents(hlaTree, d)) = 2
          /\ \A p \in Parents(hlaTree, d) : hlaTree.types[p] = "language"

\* C18: a family with distinct names gives a tree.
C18_DistinctNamesTree ==
    /\ hlaPc = "built"
    /\ hlaData.has_family
    /\ hlaData.name = "A"
    /\ Len(hlaData.languages) = 1
    /\ hlaData.languages[1].name = "B"
    /\ Len(hlaData.languages[1].dialects) = 1
    /\ hlaTree.edges = {<<"A", "B">>, <<"B", "unknown">>}
    /\ hlaTree.types["unknown"] = "dialect"

(***************************************************************************)
(*   scripts/batch_processor.py : BatchProcessor.process_file              *)
(*                                                                         *)
(*   The content is known by its length, and a slice content[a:b] by the   *)
(*   pair of its bounds: start a and stop b, stop not included.            *)
(***************************************************************************)

\* `if len(content) > 1000000` and `chunk_size=500000`
LargeFileSize == 1000000
ChunkSize == 500000

\* Contents of up to about MaxChunks chunks are tried.
MaxChunks == 6

\* Content lengths at, just below and just above every multiple of ChunkSize.
ContentLengths ==
    {n \in {k * ChunkSize + d : k \in 0..MaxChunks, d \in {-1, 0, 1}} : n >= 0}

ProcessedFileNames == {"a.txt", "b.md"}

\* content[a:b]
Slice(a, b) == [start |-> a, stop |-> b]

\* A split that leaves out a last chunk shorter than chunk_size.
RECURSIVE FullChunksFrom(_, _, _)
FullChunksFrom(i, length, chunk_size) ==
    IF i + chunk_size > length THEN <<>>
    ELSE << Slice(i, i + chunk_size) >> \o FullChunksFrom(i + chunk_size, length, chunk_size)
split_content_FullChunksOnly(length, chunk_size) == FullChunksFrom(0, length, chunk_size)

\* for i in range(i, len(content), chunk_size): chunks.append(content[i:i+chunk_size])
RECURSIVE ChunksFrom(_, _, _)
ChunksFrom(i, length, chunk_size) ==
    IF i >= length THEN <<>>
    ELSE << Slice(i, IF i + chunk_size < length THEN i + chunk_size ELSE length) >>
         \o ChunksFrom(i + chunk_size, length, chunk_size)

\* BatchProcessor._split_content on a content of that length.
split_content(length, chunk_size) == ChunksFrom(0, length, chunk_size)

\* The request of process_file: part is the number in "... 的第 {i+1} 部分",
\* 0 for the description of a whole file.
FileRequest(file_name, part, text) == [file_name |-> file_name, part |-> part, text |-> text]

NoFileResult ==
    [file_size |-> 0, is_large_file |-> FALSE, chunks_processed |-> 0, results |-> <<>>]

PFInit ==
    /\ pfPc = "idle"
    /\ pfContent = [file_name |-> "", length |-> 0]
    /\ pfChunks = <<>>
    /\ pfI = 0
    /\ pfRequests = <<>>
    /\ pfResult = NoFileResult

\* process_file(content, file_name) up to the loop (lines 135-138), or to
\* its return for a small file (lines 158-171).
PFStart ==
    /\ pfPc = "idle"
    /\ \E length \in ContentLengths : \E file_name \in ProcessedFileNames :
        /\ pfContent' = [file_name |-> file_name, length |-> length]
        /\ IF length > LargeFileSize
           THEN /\ pfChunks' = split_content(length, ChunkSize)
                /\ pfPc' = "loop"
                /\ UNCHANGED <<pfRequests, pfResult>>
           ELSE /\ pfRequests' = << FileRequest(file_name, 0, Slice(0, length)) >>
                /\ pfResult' = [NoFileResult EXCEPT !.file_size = length]
                /\ pfPc' = "done"
                /\ UNCHANGED pfChunks
    /\ pfI' = 0

\* One iteration of `for i, chunk in enumerate(chunks)` (lines 140-149).
PFSubmitChunk ==
    /\ pfPc = "loop"
    /\ pfI < Len(pfChunks)
    /\ pfRequests' = Append(pfRequests,
                            FileRequest(pfContent.file_name, pfI + 1, pfChunks[pfI + 1]))
    /\ pfResult' = [pfResult EXCEPT !.results = Append(@, pfI + 1)]
    /\ pfI' = pfI + 1
    /\ UNCHANGED <<pfPc, pfContent, pfChunks>>

\* The return of lines 151-157.
PFFinish ==
    /\ pfPc = "loop"
    /\ pfI = Len(pfChunks)
    /\ pfResult' = [pfResult EXCEPT !.file_size = pfContent.length,
                                    !.is_large_file = TRUE,
                                    !.chunks_processed = Len(pfChunks)]
    /\ pfPc' = "done"
    /\ UNCHANGED <<pfContent, pfChunks, pfI, pfRequests>>

\* The result is handed to the caller.
PFReturn ==
    /\ pfPc = "done"
    /\ pfPc' = "idle"
    /\ pfContent' = [file_name |-> "", length |-> 0]
    /\ pfChunks' = <<>>
    /\ pfI' = 0
    /\ pfRequests' = <<>>
    /\ pfResult' = NoFileResult

\* ------------------------------------------------------------------
\* C19: content of more than 1,000,000 characters is a large file, sent as
\* n = ceil(length / 500000) requests numbered 1..n whose texts are
\* consecutive slices that start at 0 and end at the length, each of at most
\* 500,000 characters and all but the last of exactly 500,000, with
\* chunks_processed = n; shorter content is sent whole as one request.
C19_ChunksCoverContent ==
    pfPc = "done" =>
        LET length == pfContent.length
            n == (length + 499999) \div 500000
        IN IF length > 1000000
           THEN /\ pfResult.is_large_file
                /\ pfResult.chunks_processed = n
                /\ Len(pfRequests) = n
                /\ pfResult.results = [k \in 1..n |-> k]
                /\ pfRequests[1].text.start = 0
                /\ pfRequests[n].text.stop = length
                /\ \A k \in 1..n :
                     /\ pfRequests[k].part = k
                     /\ pfRequests[k].file_name = pfContent.file_name
                     /\ pfRequests[k].text.stop - pfRequests[k].text.start \in 1..500000
                     /\ k < n => /\ pfRequests[k].text.stop - pfRequests[k].text.start = 500000
                                 /\ pfRequests[k + 1].text.start = pfRequests[k].text.stop
           ELSE /\ ~pfResult.is_large_file
                /\ pfRequests = << FileRequest(pfContent.file_name, 0, Slice(0, length)) >>

\* C19: 1,000,001 characters were sent as three chunks, the last of one
\* character.
C19_Witness ==
    /\ pfPc = "done"
    /\ pfContent.length = 1000001
    /\ pfResult.chunks_processed = 3
    /\ Len(pfRequests) = 3
    /\ pfRequests[3].text = Slice(1000000, 1000001)

\* C19: exactly 1,000,000 characters were sent as one request.
C19_WitnessSmall ==
    /\ pfPc = "done"
    /\ pfContent.length = 1000000
    /\ Len(pfRequests) = 1
    /\ ~pfResult.is_large_file

(***************************************************************************)
(*                          Specifications                                  *)
(***************************************************************************)
vars == <<bpVars, dhVars, caVars, iaVars, mpVars, aaVars, inVars, snVars, hdmVars, ecmVars, hlaVars, pfVars>>

Init == BPInit /\ DHInit /\ CAInit /\ IAInit /\ MPInit /\ AAInit /\ INInit /\ SNInit /\ HDMInit /\ ECMInit /\ HLAInit /\ PFInit

\* BatchProcessor alone.
NextBatch ==
    \/ BPStart /\ UNCHANGED <<dhVars, caVars, iaVars, mpVars, aaVars, inVars, snVars, hdmVars, ecmVars, hlaVars, pfVars>>
    \/ BPVisit /\ UNCHANGED <<dhVars, caVars, iaVars, mpVars, aaVars, inVars, snVars, hdmVars, ecmVars, hlaVars, pfVars>>
    \/ BPFinish /\ UNCHANGED <<dhVars, caVars, iaVars, mpVars, aaVars, inVars, snVars, hdmVars, ecmVars, hlaVars, pfVars>>

SpecBatch == Init /\ [][NextBatch]_vars

\* BatchProcessor alone, for progress: process_folder is sequential code
\* over a finite walk, and each of its steps returns, so a step that can be
\* taken is taken.
SpecBatchLive == SpecBatch /\ WF_vars(NextBatch)

\* DigitalHumanities.process_request alone.
NextDH ==
    \/ DHProcessDict /\ UNCHANGED <<bpVars, caVars, iaVars, mpVars, aaVars, inVars, snVars, hdmVars, ecmVars, hlaVars, pfVars>>
    \/ DHProcessOther /\ UNCHANGED <<bpVars, caVars, iaVars, mpVars, aaVars, inVars, snVars, hdmVars, ecmVars, hlaVars, pfVars>>
    \/ DHReturn /\ UNCHANGED <<bpVars, caVars, iaVars, mpVars, aaVars, inVars, snVars, hdmVars, ecmVars, hlaVars, pfVars>>

SpecDH == Init /\ [][NextDH]_vars

\* CulturalAnalyzer alone.
NextCA ==
    \/ CACreate /\ UNCHANGED <<bpVars, dhVars, iaVars, mpVars, aaVars, inVars, snVars, hdmVars, ecmVars, hlaVars, pfVars>>
    \/ CADescriptive /\ UNCHANGED <<bpVars, dhVars, iaVars, mpVars, aaVars, inVars, snVars, hdmVars, ecmVars, hlaVars, pfVars>>
    \/ CACorrelation /\ UNCHANGED <<bpVars, dhVars, iaVars, mpVars, aaVars, inVars, snVars, hdmVars, ecmVars, hlaVars, pfVars>>
    \/ CANetwork /\ UNCHANGED <<bpVars, dhVars, iaVars, mpVars, aaVars, inVars, snVars, hdmVars, ecmVars, hlaVars, pfVars>>
    \/ CACluster /\ UNCHANGED <<bpVars, dhVars, iaVars, mpVars, aaVars, inVars, snVars, hdmVars, ecmVars, hlaVars, pfVars>>
    \/ CATimeSeries /\ UNCHANGED <<bpVars, dhVars, iaVars, mpVars, aaVars, inVars, snVars, hdmVars, ecmVars, hlaVars, pfVars>>
    \/ CAGeographic /\ UNCHANGED <<bpVars, dhVars, iaVars, mpVars, aaVars, inVars, snVars, hdmVars, ecmVars, hlaVars, pfVars>>
    \/ CASentiment /\ UNCHANGED <<bpVars, dhVars, iaVars, mpVars, aaVars, inVars, snVars, hdmVars, ecmVars, hlaVars, pfVars>>
    \/ CAReturn /\ UNCHANGED <<bpVars, dhVars, iaVars, mpVars, aaVars, inVars, snVars, hdmVars, ecmVars, hlaVars, pfVars>>

SpecCA == Init /\ [][NextCA]_vars

\* ImageAnalyzer alone.
NextIA ==
    \/ IACreate /\ UNCHANGED <<bpVars, dhVars, caVars, mpVars, aaVars, inVars, snVars, hdmVars, ecmVars, hlaVars, pfVars>>
    \/ IALoadImage /\ UNCHANGED <<bpVars, dhVars, caVars, mpVars, aaVars, inVars, snVars, hdmVars, ecmVars, hlaVars, pfVars>>
    \/ IAAnalyze /\ UNCHANGED <<bpVars, dhVars, caVars, mpVars, aaVars, inVars, snVars, hdmVars, ecmVars, hlaVars, pfVars>>
    \/ IAEnhance /\ UNCHANGED <<bpVars, dhVars, caVars, mpVars, aaVars, inVars, snVars, hdmVars, ecmVars, hlaVars, pfVars>>
    \/ IAStyleTransfer /\ UNCHANGED <<bpVars, dhVars, caVars, mpVars, aaVars, inVars, snVars, hdmVars, ecmVars, hlaVars, pfVars>>
    \/ IADetectFaces /\ UNCHANGED <<bpVars, dhVars, caVars, mpVars, aaVars, inVars, snVars, hdmVars, ecmVars, hlaVars, pfVars>>
    \/ IASegment /\ UNCHANGED <<bpVars, dhVars, caVars, mpVars, aaVars, inVars, snVars, hdmVars, ecmVars, hlaVars, pfVars>>
    \/ IAExtractFeatures /\ UNCHANGED <<bpVars, dhVars, caVars, mpVars, aaVars, inVars, snVars, hdmVars, ecmVars, hlaVars, pfVars>>
    \/ IAReturn /\ UNCHANGED <<bpVars, dhVars, caVars, mpVars, aaVars, inVars, snVars, hdmVars, ecmVars, hlaVars, pfVars>>

SpecIA == Init /\ [][NextIA]_vars

\* ModelProcessor alone.
NextMP ==
    \/ MPCreate /\ UNCHANGED <<bpVars, dhVars, caVars, iaVars, aaVars, inVars, snVars, hdmVars, ecmVars, hlaVars, pfVars>>
    \/ MPLoadModel /\ UNCHANGED <<bpVars, dhVars, caVars, iaVars, aaVars, inVars, snVars, hdmVars, ecmVars, hlaVars, pfVars>>
    \/ MPProcessPointCloud /\ UNCHANGED <<bpVars, dhVars, caVars, iaVars, aaVars, inVars, snVars, hdmVars, ecmVars, hlaVars, pfVars>>
    \/ MPReconstructMesh /\ UNCHANGED <<bpVars, dhVars, caVars, iaVars, aaVars, inVars, snVars, hdmVars, ecmVars, hlaVars, pfVars>>
    \/ MPSimplifyMesh /\ UNCHANGED <<bpVars, dhVars, caVars, iaVars, aaVars, inVars, snVars, hdmVars, ecmVars, hlaVars, pfVars>>
    \/ MPTextureMapping /\ UNCHANGED <<bpVars, dhVars, caVars, iaVars, aaVars, inVars, snVars, hdmVars, ecmVars, hlaVars, pfVars>>
    \/ MPMeasureDimensions /\ UNCHANGED <<bpVars, dhVars, caVars, iaVars, aaVars, inVars, snVars, hdmVars, ecmVars, hlaVars, pfVars>>
    \/ MPGenerateReport /\ UNCHANGED <<bpVars, dhVars, caVars, iaVars, aaVars, inVars, snVars, hdmVars, ecmVars, hlaVars, pfVars>>
    \/ MPReturn /\ UNCHANGED <<bpVars, dhVars, caVars, iaVars, aaVars, inVars, snVars, hdmVars, ecmVars, hlaVars, pfVars>>

SpecMP == Init /\ [][NextMP]_vars

\* ArgumentAnalyzer.extract_arguments alone.
NextAA ==
    \/ AAStart /\ UNCHANGED <<bpVars, dhVars, caVars, iaVars, mpVars, inVars, snVars, hdmVars, ecmVars, hlaVars, pfVars>>
    \/ AALoop /\ UNCHANGED <<bpVars, dhVars, caVars, iaVars, mpVars, inVars, snVars, hdmVars, ecmVars, hlaVars, pfVars>>
    \/ AAFinish /\ UNCHANGED <<bpVars, dhVars, caVars, iaVars, mpVars, inVars, snVars, hdmVars, ecmVars, hlaVars, pfVars>>
    \/ AAGenerateSummary /\ UNCHANGED <<bpVars, dhVars, caVars, iaVars, mpVars, inVars, snVars, hdmVars, ecmVars, hlaVars, pfVars>>
    \/ AAReturn /\ UNCHANGED <<bpVars, dhVars, caVars, iaVars, mpVars, inVars, snVars, hdmVars, ecmVars, hlaVars, pfVars>>

SpecAA == Init /\ [][NextAA]_vars

\* InfluenceNetworkAnalyzer alone.
NextIN ==
    \/ INBuild /\ UNCHANGED <<bpVars, dhVars, caVars, iaVars, mpVars, aaVars, snVars, hdmVars, ecmVars, hlaVars, pfVars>>
    \/ INAnalyzePaths /\ UNCHANGED <<bpVars, dhVars, caVars, iaVars, mpVars, aaVars, snVars, hdmVars, ecmVars, hlaVars, pfVars>>
    \/ INReturn /\ UNCHANGED <<bpVars, dhVars, caVars, iaVars, mpVars, aaVars, snVars, hdmVars, ecmVars, hlaVars, pfVars>>

SpecIN == Init /\ [][NextIN]_vars

\* SemanticNetworkAnalyzer.build_network_from_text alone.
NextSN ==
    \/ SNBuild /\ UNCHANGED <<bpVars, dhVars, caVars, iaVars, mpVars, aaVars, inVars, hdmVars, ecmVars, hlaVars, pfVars>>
    \/ SNDrop /\ UNCHANGED <<bpVars, dhVars, caVars, iaVars, mpVars, aaVars, inVars, hdmVars, ecmVars, hlaVars, pfVars>>

SpecSN == Init /\ [][NextSN]_vars

\* HeritageDataManager metadata creation and validation alone.
NextHDM ==
    \/ HDMCreateMetadata /\ UNCHANGED <<bpVars, dhVars, caVars, iaVars, mpVars, aaVars, inVars, snVars, ecmVars, hlaVars, pfVars>>
    \/ HDMValidateCreated /\ UNCHANGED <<bpVars, dhVars, caVars, iaVars, mpVars, aaVars, inVars, snVars, ecmVars, hlaVars, pfVars>>
    \/ HDMValidateEmpty /\ UNCHANGED <<bpVars, dhVars, caVars, iaVars, mpVars, aaVars, inVars, snVars, ecmVars, hlaVars, pfVars>>
    \/ HDMReturn /\ UNCHANGED <<bpVars, dhVars, caVars, iaVars, mpVars, aaVars, inVars, snVars, ecmVars, hlaVars, pfVars>>

SpecHDM == Init /\ [][NextHDM]_vars

\* EducationalContentManager: one call at a time
NextECM ==
    \/ ECMCreateCourse /\ UNCHANGED <<bpVars, dhVars, caVars, iaVars, mpVars, aaVars, inVars, snVars, hdmVars, hlaVars, pfVars>>
    \/ ECMCreateDigitalStory /\ UNCHANGED <<bpVars, dhVars, caVars, iaVars, mpVars, aaVars, inVars, snVars, hdmVars, hlaVars, pfVars>>
    \/ ECMCreateCommunityProject /\ UNCHANGED <<bpVars, dhVars, caVars, iaVars, mpVars, aaVars, inVars, snVars, hdmVars, hlaVars, pfVars>>
    \/ ECMGenerateLessonPlan /\ UNCHANGED <<bpVars, dhVars, caVars, iaVars, mpVars, aaVars, inVars, snVars, hdmVars, hlaVars, pfVars>>
    \/ ECMCreateAccessibilityReport /\ UNCHANGED <<bpVars, dhVars, caVars, iaVars, mpVars, aaVars, inVars, snVars, hdmVars, hlaVars, pfVars>>
    \/ ECMEvaluateEducationalImpact /\ UNCHANGED <<bpVars, dhVars, caVars, iaVars, mpVars, aaVars, inVars, snVars, hdmVars, hlaVars, pfVars>>
    \/ ECMReturn /\ UNCHANGED <<bpVars, dhVars, caVars, iaVars, mpVars, aaVars, inVars, snVars, hdmVars, hlaVars, pfVars>>

SpecECM == Init /\ [][NextECM]_vars

\* HistoricalLinguisticsAnalysis.build_language_tree
NextHLA ==
    \/ HLABuildLanguageTree /\ UNCHANGED <<bpVars, dhVars, caVars, iaVars, mpVars, aaVars, inVars, snVars, hdmVars, ecmVars, pfVars>>
    \/ HLAReturn /\ UNCHANGED <<bpVars, dhVars, caVars, iaVars, mpVars, aaVars, inVars, snVars, hdmVars, ecmVars, pfVars>>

SpecHLA == Init /\ [][NextHLA]_vars

\* BatchProcessor.process_file alone
NextPF ==
    \/ PFStart /\ UNCHANGED <<bpVars, dhVars, caVars, iaVars, mpVars, aaVars, inVars, snVars, hdmVars, ecmVars, hlaVars>>
    \/ PFSubmitChunk /\ UNCHANGED <<bpVars, dhVars, caVars, iaVars, mpVars, aaVars, inVars, snVars, hdmVars, ecmVars, hlaVars>>
    \/ PFFinish /\ UNCHANGED <<bpVars, dhVars, caVars, iaVars, mpVars, aaVars, inVars, snVars, hdmVars, ecmVars, hlaVars>>
    \/ PFReturn /\ UNCHANGED <<bpVars, dhVars, caVars, iaVars, mpVars, aaVars, inVars, snVars, hdmVars, ecmVars, hlaVars>>

SpecPF == Init /\ [][NextPF]_vars

=============================================================================
